---- MODULE Spec2Model ----
(***************************************************************************)
(* A model of duet: a reentrant, single-threaded cooperative scheduler     *)
(* with structured concurrency (scopes), a FIFO limiter and an ordered     *)
(* parallel map.                                                           *)
(*                                                                         *)
(* src/duet/__init__.py holds run, new_scope, Scope, Limiter, Slot and     *)
(* pmap_aiter.  duet.impl (Scheduler, Task, Interrupt, any_ready),         *)
(* duet.futuretools and duet.aitertools are imported by it but are not     *)
(* among the source files; they are modelled from the specification.       *)
(*                                                                         *)
(* A task is advanced by Tick, which makes it the current task and         *)
(* records what is injected at its await.  While a task is current only    *)
(* its own steps are enabled (task bodies never run in parallel); a step   *)
(* that awaits clears the current task.  Futures completed from outside    *)
(* (Complete) may land at any moment.                                      *)
(***************************************************************************)
EXTENDS Naturals, Integers, Sequences, FiniteSets, TLC

\* Bounds of the model.
MaxChildren == 2    \* tasks a scope program spawns over its whole run
MaxAwaits == 2      \* awaits of external futures over the whole run
MaxRounds == 2      \* `async with new_scope()` statements the main task runs
MaxInputs == 2      \* length of the longest input list given to pmap

\* "no task": main_task=None of a root task, no current task.
NoTask == 0

\* Task objects: a root task and the tasks spawned in its scopes and in a
\* nested run, or the consumer, the generator and the workers of a pmap.
NTasks == IF MaxChildren > MaxInputs THEN MaxChildren + 2 ELSE MaxInputs + 2
Task == 1..NTasks

VARIABLES
    pc,             \* [Task -> position in the task's code]
    ready,          \* the scheduler's ready queue (FIFO)
    current,        \* the task being advanced, or NoTask
    inj,            \* what the running advance injected at the await
    intr,           \* [Task -> pending interrupt]
    interruptible,  \* [Task -> BOOLEAN]
    fut,            \* [Task -> outcome of the future the task awaits]
    aw,             \* [Task -> kind of the future the task awaits]
    main_task,      \* [Task -> main task of the scope it was spawned in]
    result,         \* [Task -> result or error of a done task]
    nawait,         \* awaits of external futures made so far
    tasks,          \* [Task -> child set of the scope the task has open]
    watch,          \* [Task -> tasks its any_ready future watches]
    exc,            \* [Task -> exception caught by new_scope's except clause]
    sres,           \* [Task -> outcome of the task's last scope statement]
    round,          \* [Task -> scope statements entered so far]
    spawnedIn,      \* history: tasks spawned in the task's current scope
    spawner,        \* history: [Task -> the task that called spawn for it]
    bodyErr,        \* history: error the current scope's body raised
    interrupted,    \* history: tasks new_scope called interrupt on
    capacity,       \* Limiter.capacity
    count,          \* Limiter.count
    waiters,        \* Limiter.waiters: the futures, named by the task awaiting
    available_waiters,  \* Limiter.available_waiters, named likewise
    arrivals,       \* history: tasks in the order they called __aenter__
    acquired,       \* history: tasks in the order they incremented count
    abandoned,      \* history: tasks whose wait in __aenter__ ended in an error
    nintr,          \* interrupts posted from outside so far
    xs,             \* pmap: the input list
    limit,          \* pmap: the limit argument
    next_in,        \* pmap: inputs the generator has taken from aenumerate
    widx,           \* pmap: [Task -> index i of the item the worker was given]
    cbuf,           \* AsyncCollector: buffered (i, value) pairs
    cdone,          \* AsyncCollector: done
    cerror,         \* AsyncCollector: error
    buffer,         \* pmap_aiter: the dict of out-of-order results
    next_idx,       \* pmap_aiter: next index to yield
    out,            \* pmap_async: the list built from the yielded results
    added,          \* history: indices in the order they reached the collector
    saved,          \* run: stack of the schedulers suspended in a nested run
    owner,          \* run: [Task -> depth of the scheduler the task belongs to]
    prog,           \* run: [Task -> the function given to the run that spawned it]
    nstep,          \* run: [Task -> awaits the root task has made]
    retval,         \* run: [Task -> value the task's coroutine returned]
    runres,         \* run: [caller -> outcome of the caller's call of run]
    nest,           \* history: the outer scheduler before and after a nested run
    called,         \* Slot.called: [Task -> has the task's slot been released]
    nrel,           \* history: [Task -> calls of release() on the task's slot]
    nresize,        \* assignments to Limiter.capacity made so far
    shrunk,         \* history: capacity was set below the count of that moment
    cancelCalls,    \* history: scope statements on which cancel() was called
    timed,          \* history: scope statements opened with a timeout
    suppress_context,   \* scope statements whose error has __suppress_context__
    ctx,            \* [Task -> the context bindings of the task]
    seen,           \* [Task -> the bindings the task read]
    outcome,        \* [future -> outcome of the future object]
    callbacks,      \* [future -> tasks whose wake-up is a done-callback of it]
    fired,          \* history: [future -> times its callbacks were run]
    waitsOn,        \* [Task -> the future object the task awaits]
    nops,           \* operations made on future objects so far
    drv,            \* AsyncioRunner.run: where the driver is in its code
    axc,            \* AsyncioRunner.run: the exception caught by the driver
    aiores,         \* AsyncioRunner.run: what the call returned or raised
    ncancel,        \* times asyncio cancelled the driver
    signals,        \* the scheduler's signal handlers are installed
    flushed,        \* scheduler.flush() was called since the last tick
    niter,          \* throttle: length of the iterable the tasks iterate
    taken,          \* throttle: [Task -> items taken from the iterable]
    yielded,        \* history: [Task -> the values throttle yielded]
    gates           \* history: [Task -> calls of available() that returned]

coreVars == <<pc, ready, current, inj, intr, interruptible, fut, aw, main_task,
              result, nawait>>
scopeVars == <<tasks, watch, exc, sres, round, spawnedIn, spawner, bodyErr,
               interrupted>>
limVars == <<capacity, count, waiters, available_waiters, arrivals, acquired,
             abandoned, nintr>>
pmapVars == <<xs, limit, next_in, widx, cbuf, cdone, cerror, buffer, next_idx, out,
              added>>
runVars == <<saved, owner, prog, nstep, retval, runres, nest>>
slotVars == <<called, nrel, nresize, shrunk>>
apiVars == <<cancelCalls, timed, suppress_context>>
ctxVars == <<ctx, seen>>
futVars == <<outcome, callbacks, fired, waitsOn, nops>>
aioVars == <<drv, axc, aiores, ncancel, signals, flushed>>
thrVars == <<niter, taken, yielded, gates>>
vars == <<coreVars, scopeVars, limVars, pmapVars, runVars, slotVars, apiVars,
          ctxVars, futVars, aioVars, thrVars>>

\* What the scheduler, the scope code and the limiter code leave alone.
otherVars == <<slotVars, apiVars, ctxVars, futVars, aioVars, thrVars>>
nonCore == <<scopeVars, limVars, pmapVars, runVars, otherVars>>
outsideScope == <<limVars, pmapVars, runVars, otherVars>>
outsideLim == <<scopeVars, pmapVars, runVars, otherVars>>
outsidePmap == <<runVars, otherVars>>
outsideRun == <<limVars, pmapVars, otherVars>>

-----------------------------------------------------------------------------
\* Values.

Ok == [e |-> "ok", by |-> NoTask]
NoRes == [e |-> "none", by |-> NoTask]
\* `raise Fail()` in the body of task t.
Fail(t) == [e |-> "Fail", by |-> t]
\* The error of a failed future awaited by task t.
FutErr(t) == [e |-> "FutFail", by |-> t]
\* RuntimeError("scope exited"), posted by the scope of main task m.
ScopeExited(m) == [e |-> "RuntimeError", by |-> m]
\* An impl.Interrupt that left a task's coroutine.
Interrupted(src) == [e |-> "Interrupt", by |-> src]

\* AttributeError: 'Scope' object has no attribute 'cancel', raised in task t.
NoCancel(t) == [e |-> "AttributeError", by |-> t]
\* TypeError: new_scope() got an unexpected keyword argument, raised in task t.
NoTimeout(t) == [e |-> "TypeError", by |-> t]

IsUserError(r) == r.e \in {"Fail", "FutFail", "AttributeError", "TypeError"}

NoIntr == [src |-> NoTask, err |-> NoRes]
NoInj == [kind |-> "none", err |-> NoRes, src |-> NoTask]

InSeq(x, s) == \E i \in 1..Len(s) : s[i] = x

\* Mark a task ready: a task is in the ready queue at most once.
Enq(q, t) == IF InSeq(t, q) THEN q ELSE Append(q, t)

RECURSIVE EnqAll(_, _)
EnqAll(q, ts) == IF ts = <<>> THEN q ELSE EnqAll(Enq(q, Head(ts)), Tail(ts))

\* The orders in which a Python set may be iterated.
Orders(S) == {s \in [1..Cardinality(S) -> S] : \A i, j \in 1..Cardinality(S) :
                                                   s[i] = s[j] => i = j}

Done(t) == pc[t] = "done"
Unborn(t) == pc[t] = "unborn"
\* Scheduler.active_tasks
Active == {t \in Task : ~Done(t) /\ ~Unborn(t)}

\* The next task object Scheduler.spawn creates.
NextTask == CHOOSE t \in Task : Unborn(t) /\ \A u \in Task : Unborn(u) => t <= u
\* The programs call Scope.spawn at most MaxChildren times.
CanSpawn == Cardinality({t \in Task : spawner[t] # NoTask}) < MaxChildren

-----------------------------------------------------------------------------
\* Task.interrupt (duet.impl).

RECURSIVE IsAncestor(_, _, _)
IsAncestor(a, b, d) ==
    /\ d > 0
    /\ b # NoTask
    /\ \/ main_task[b] = a
       \/ IsAncestor(a, main_task[b], d - 1)

\* An interrupt whose source is an ancestor scope supersedes a pending one.
Dominates(new, old) == new # NoTask /\ old # NoTask /\ IsAncestor(new, old, NTasks)

\* A task that takes every interrupt posted to it while it is active, a
\* later one overwriting the pending one.
Accepts_Always(I, t, src) ==
    /\ ~Done(t)
    /\ ~Unborn(t)

\* Task.interrupt records the interrupt if the task is active and holds no
\* pending interrupt, or holds one whose source the new source dominates.
Accepts(I, t, src) ==
    /\ ~Done(t)
    /\ ~Unborn(t)
    /\ (I[t] = NoIntr \/ Dominates(src, I[t].src))

IntrPost(I, t, src, err) ==
    IF Accepts(I, t, src) THEN [I EXCEPT ![t] = [src |-> src, err |-> err]] ELSE I

RECURSIVE IntrPostAll(_, _, _, _)
IntrPostAll(I, ts, src, err) ==
    IF ts = <<>> THEN I
    ELSE IntrPostAll(IntrPost(I, Head(ts), src, err), Tail(ts), src, err)

\* The tasks among ts that an interrupt marks ready, in order.
Wakes(ts) == SelectSeq(ts, LAMBDA t : ~Done(t) /\ ~Unborn(t) /\ interruptible[t]
                                       /\ t # current)

-----------------------------------------------------------------------------
\* A scheduler that advances the task that became ready last.
Tick_Last ==
    /\ current = NoTask
    /\ ready # <<>>
    /\ LET t == ready[Len(ready)]
           hasIntr == intr[t] # NoIntr /\ interruptible[t]
       IN /\ current' = t
          /\ ready' = SubSeq(ready, 1, Len(ready) - 1)
          /\ inj' = IF hasIntr
                    THEN [kind |-> "intr", err |-> intr[t].err, src |-> intr[t].src]
                    ELSE IF pc[t] = "start"
                    THEN [kind |-> "start", err |-> NoRes, src |-> NoTask]
                    ELSE [kind |-> fut[t],
                          err |-> IF fut[t] = "err" THEN FutErr(t) ELSE NoRes,
                          src |-> NoTask]
          /\ intr' = IF hasIntr THEN [intr EXCEPT ![t] = NoIntr] ELSE intr
          /\ fut' = [fut EXCEPT ![t] = IF hasIntr /\ @ = "unset" THEN "cancelled"
                                       ELSE @]
    /\ UNCHANGED <<pc, interruptible, aw, main_task, result, nawait, nonCore>>

\* Scheduler.tick (duet.impl): advance the head of the ready queue.  A pending
\* interrupt of an interruptible task is injected at its await and cancels the
\* awaited future; otherwise the future's outcome is delivered.
Tick ==
    /\ current = NoTask
    /\ ready # <<>>
    /\ LET t == Head(ready)
           hasIntr == intr[t] # NoIntr /\ interruptible[t]
       IN /\ current' = t
          /\ ready' = Tail(ready)
          /\ inj' = IF hasIntr
                    THEN [kind |-> "intr", err |-> intr[t].err, src |-> intr[t].src]
                    ELSE IF pc[t] = "start"
                    THEN [kind |-> "start", err |-> NoRes, src |-> NoTask]
                    ELSE [kind |-> fut[t],
                          err |-> IF fut[t] = "err" THEN FutErr(t) ELSE NoRes,
                          src |-> NoTask]
          /\ intr' = IF hasIntr THEN [intr EXCEPT ![t] = NoIntr] ELSE intr
          /\ fut' = [fut EXCEPT ![t] = IF hasIntr /\ @ = "unset" THEN "cancelled"
                                       ELSE @]
    /\ UNCHANGED <<pc, interruptible, aw, main_task, result, nawait, nonCore>>

\* A completion that does not mark the waiting task ready.
Complete_NoWake(t) ==
    /\ fut[t] = "unset"
    /\ aw[t] = "ext"
    /\ \E o \in {"ok", "err"} : fut' = [fut EXCEPT ![t] = o]
    /\ UNCHANGED <<pc, ready, current, inj, intr, interruptible, aw, main_task,
                   result, nawait, nonCore>>

\* A future is completed from outside the scheduler (another thread, or a
\* completed_future / failed_future that was terminal from the start).
Complete(t) ==
    /\ fut[t] = "unset"
    /\ aw[t] = "ext"
    /\ \E o \in {"ok", "err"} : fut' = [fut EXCEPT ![t] = o]
    /\ ready' = Enq(ready, t)
    /\ UNCHANGED <<pc, current, inj, intr, interruptible, aw, main_task, result,
                   nawait, nonCore>>

-----------------------------------------------------------------------------
\* A task's coroutine ends (Task.advance, duet.impl): the task is done, its
\* result is stored, an error it raised is propagated to the main task of its
\* scope as an interrupt, and the any_ready futures watching it complete.
FinishFrom(t, res, q, F) ==
    LET m == main_task[t]
        post == IsUserError(res) /\ m # NoTask
        woken == {u \in Task : aw[u] = "any" /\ F[u] = "unset" /\ t \in watch[u]}
        q1 == IF post THEN EnqAll(q, Wakes(<<m>>)) ELSE q
    IN /\ pc' = [pc EXCEPT ![t] = "done"]
       /\ result' = [result EXCEPT ![t] = res]
       /\ intr' = IF post THEN IntrPost(intr, m, t, res) ELSE intr
       /\ fut' = [u \in Task |-> IF u \in woken THEN "ok"
                                 ELSE IF u = t THEN "none" ELSE F[u]]
       /\ ready' = IF woken = {} THEN q1 ELSE Enq(q1, CHOOSE u \in woken : TRUE)
       /\ current' = NoTask
       /\ inj' = NoInj

\* The same, from the scheduler's present ready queue and futures.
Finish(t, res) == FinishFrom(t, res, ready, fut)

\* `await f` on a future of the task's own: the task is suspended.
AwaitExt(t, nextpc) ==
    /\ pc' = [pc EXCEPT ![t] = nextpc]
    /\ fut' = [fut EXCEPT ![t] = "unset"]
    /\ aw' = [aw EXCEPT ![t] = "ext"]
    /\ nawait' = nawait + 1
    /\ current' = NoTask
    /\ inj' = NoInj

\* `await impl.any_ready(T)`: the future is complete at once when T is empty
\* or holds a done task, and completes when a task of T becomes done.
AwaitAnyReady(m, T, q, nextpc) ==
    LET now == T = {} \/ \E c \in T : Done(c)
    IN /\ fut' = [fut EXCEPT ![m] = IF now THEN "ok" ELSE "unset"]
       /\ aw' = [aw EXCEPT ![m] = "any"]
       /\ watch' = [watch EXCEPT ![m] = T]
       /\ ready' = IF now THEN Enq(q, m) ELSE q
       /\ pc' = [pc EXCEPT ![m] = nextpc]
       /\ current' = NoTask
       /\ inj' = NoInj

-----------------------------------------------------------------------------
\* A spawn that starts running the new task inside the call.
ScopeSpawnFrom_Eager(m, by, P) ==
    LET c == NextTask
    IN /\ pc' = [P EXCEPT ![c] = "c_run"]
       /\ main_task' = [main_task EXCEPT ![c] = m]
       /\ ready' = ready
       /\ tasks' = [tasks EXCEPT ![m] = @ \cup {c}]
       /\ spawnedIn' = [spawnedIn EXCEPT ![m] = @ \cup {c}]
       /\ spawner' = [spawner EXCEPT ![c] = by]

\* Scope.spawn: a new task running Scope._run(func), tagged with the scope's
\* main task, is added to the scheduler (ready) and to the scope's task set.
ScopeSpawnFrom(m, by, P) ==
    LET c == NextTask
    IN /\ pc' = [P EXCEPT ![c] = "start"]
       /\ main_task' = [main_task EXCEPT ![c] = m]
       /\ ready' = Append(ready, c)
       /\ tasks' = [tasks EXCEPT ![m] = @ \cup {c}]
       /\ spawnedIn' = [spawnedIn EXCEPT ![m] = @ \cup {c}]
       /\ spawner' = [spawner EXCEPT ![c] = by]

\* The same, when the caller stays where it is in its code.
ScopeSpawn(m, by) == ScopeSpawnFrom(m, by, pc)

\* new_scope, entry: main_task = current_task(), tasks = set(), yield Scope.
EnterScope(m) ==
    /\ tasks' = [tasks EXCEPT ![m] = {}]
    /\ spawnedIn' = [spawnedIn EXCEPT ![m] = {}]
    /\ bodyErr' = [bodyErr EXCEPT ![m] = NoRes]
    /\ sres' = [sres EXCEPT ![m] = NoRes]
    /\ exc' = [exc EXCEPT ![m] = NoInj]
    /\ round' = [round EXCEPT ![m] = @ + 1]
    /\ pc' = [pc EXCEPT ![m] = "body"]

\* An except clause that leaves the main task interruptible.
ExceptClause_Interruptible(m, xc, ord) ==
    /\ intr' = IntrPostAll(intr, ord, m, ScopeExited(m))
    /\ interrupted' = interrupted \cup {ord[i] : i \in 1..Len(ord)}
    /\ interruptible' = interruptible
    /\ exc' = [exc EXCEPT ![m] = xc]
    /\ AwaitAnyReady(m, tasks[m], EnqAll(ready, Wakes(ord)), "cleanup_wait")

\* new_scope, the except clause: interrupt the remaining tasks, stop taking
\* interrupts, and wait for the tasks to finish.
ExceptClause(m, xc, ord) ==
    /\ intr' = IntrPostAll(intr, ord, m, ScopeExited(m))
    /\ interrupted' = interrupted \cup {ord[i] : i \in 1..Len(ord)}
    /\ interruptible' = [interruptible EXCEPT ![m] = FALSE]
    /\ exc' = [exc EXCEPT ![m] = xc]
    /\ AwaitAnyReady(m, tasks[m], EnqAll(ready, Wakes(ord)), "cleanup_wait")

\* An except clause that tests `if task.done`.
Remaining_Done(m) == {c \in tasks[m] : Done(c)}

\* The tasks the except clause interrupts: `if not task.done`.
Remaining(m) == {c \in tasks[m] : ~Done(c)}

\* The main task is advanced for the first time and enters its first scope.
MainStart(m) ==
    /\ current = m
    /\ pc[m] = "start"
    /\ inj.kind = "start"
    /\ EnterScope(m)
    /\ UNCHANGED <<ready, current, inj, intr, interruptible, fut, aw, main_task,
                   result, nawait, watch, spawner, interrupted>>
    /\ UNCHANGED outsideScope

\* The body calls scope.spawn.
BodySpawn(m) ==
    /\ current = m
    /\ pc[m] = "body"
    /\ CanSpawn
    /\ ScopeSpawn(m, m)
    /\ UNCHANGED <<current, inj, intr, interruptible, fut, aw, result, nawait,
                   watch, exc, sres, round, bodyErr, interrupted>>
    /\ UNCHANGED outsideScope

\* The body awaits a future.
BodyAwait(m) ==
    /\ current = m
    /\ pc[m] = "body"
    /\ nawait < MaxAwaits
    /\ AwaitExt(m, "body_await")
    /\ UNCHANGED <<ready, intr, interruptible, main_task, result, scopeVars>>
    /\ UNCHANGED outsideScope

\* The await of the body returns.
BodyResume(m) ==
    /\ current = m
    /\ pc[m] = "body_await"
    /\ inj.kind = "ok"
    /\ pc' = [pc EXCEPT ![m] = "body"]
    /\ inj' = NoInj
    /\ UNCHANGED <<ready, current, intr, interruptible, fut, aw, main_task, result,
                   nawait, scopeVars>>
    /\ UNCHANGED outsideScope

\* The body raises: synchronously, or at its await of a failed future.
BodyRaise(m) ==
    /\ current = m
    /\ \E e \in {Fail(m), FutErr(m)} :
          /\ IF e = Fail(m) THEN pc[m] = "body"
                            ELSE pc[m] = "body_await" /\ inj.kind = "err"
          /\ bodyErr' = [bodyErr EXCEPT ![m] = e]
          /\ \E ord \in Orders(Remaining(m)) :
                ExceptClause(m, [kind |-> "exc", err |-> e, src |-> NoTask], ord)
    /\ UNCHANGED <<main_task, result, nawait, tasks, sres, round, spawnedIn, spawner>>
    /\ UNCHANGED outsideScope

\* The main task is interrupted at an await of the body or of finish_tasks:
\* impl.Interrupt is raised there and caught by the except clause.
MainInterrupted(m) ==
    /\ current = m
    /\ pc[m] \in {"body_await", "finish_wait"}
    /\ inj.kind = "intr"
    /\ \E ord \in Orders(Remaining(m)) : ExceptClause(m, inj, ord)
    /\ UNCHANGED <<main_task, result, nawait, tasks, sres, round, spawnedIn, spawner,
                   bodyErr>>
    /\ UNCHANGED outsideScope

\* The body ends: `await finish_tasks()`.
BodyEnd(m) ==
    /\ current = m
    /\ pc[m] = "body"
    /\ AwaitAnyReady(m, tasks[m], ready, "finish_wait")
    /\ UNCHANGED <<intr, interruptible, main_task, result, nawait, tasks, exc, sres,
                   round, spawnedIn, spawner, bodyErr, interrupted>>
    /\ UNCHANGED outsideScope

\* finish_tasks after any_ready: tasks.intersection_update(active_tasks), and
\* the loop goes on while tasks are left.
FinishLoop(m) ==
    /\ current = m
    /\ pc[m] \in {"finish_wait", "cleanup_wait"}
    /\ inj.kind = "ok"
    /\ tasks[m] \cap Active # {}
    /\ tasks' = [tasks EXCEPT ![m] = @ \cap Active]
    /\ AwaitAnyReady(m, tasks[m] \cap Active, ready, pc[m])
    /\ UNCHANGED <<intr, interruptible, main_task, result, nawait, exc, sres,
                   round, spawnedIn, spawner, bodyErr, interrupted>>
    /\ UNCHANGED outsideScope

\* A finish_tasks that waits for any_ready once and does not loop.
ScopeExit_NoLoop(m) ==
    /\ current = m
    /\ pc[m] = "finish_wait"
    /\ inj.kind = "ok"
    /\ tasks' = [tasks EXCEPT ![m] = {}]
    /\ sres' = [sres EXCEPT ![m] = Ok]
    /\ pc' = [pc EXCEPT ![m] = "after"]
    /\ inj' = NoInj
    /\ UNCHANGED <<ready, current, intr, interruptible, fut, aw, main_task, result,
                   nawait, watch, exc, round, spawnedIn, spawner, bodyErr,
                   interrupted>>
    /\ UNCHANGED outsideScope

\* finish_tasks breaks on the normal path: the `async with` block exits.
ScopeExit(m) ==
    /\ current = m
    /\ pc[m] = "finish_wait"
    /\ inj.kind = "ok"
    /\ tasks[m] \cap Active = {}
    /\ tasks' = [tasks EXCEPT ![m] = {}]
    /\ sres' = [sres EXCEPT ![m] = Ok]
    /\ pc' = [pc EXCEPT ![m] = "after"]
    /\ inj' = NoInj
    /\ UNCHANGED <<ready, current, intr, interruptible, fut, aw, main_task, result,
                   nawait, watch, exc, round, spawnedIn, spawner, bodyErr,
                   interrupted>>
    /\ UNCHANGED outsideScope

\* A raise that lets the Interrupt itself leave the statement.
Raised_Interrupt(x) == IF x.kind = "intr" THEN Interrupted(x.src) ELSE x.err

\* `if isinstance(exc, impl.Interrupt): exc = exc.error`: what is raised for
\* the caught exception x, the exception itself or the error the Interrupt
\* carries.
Raised(x) == x.err

\* finish_tasks breaks in the except clause: an Interrupt is replaced by the
\* error it carries, whose __suppress_context__ is set, and the exception is
\* raised out of the statement.
ScopeRaise(m) ==
    /\ current = m
    /\ pc[m] = "cleanup_wait"
    /\ inj.kind = "ok"
    /\ tasks[m] \cap Active = {}
    /\ tasks' = [tasks EXCEPT ![m] = {}]
    /\ sres' = [sres EXCEPT ![m] = Raised(exc[m])]
    /\ suppress_context' = IF exc[m].kind = "intr"
                           THEN suppress_context \cup {<<m, round[m]>>}
                           ELSE suppress_context
    /\ pc' = [pc EXCEPT ![m] = "after"]
    /\ inj' = NoInj
    /\ UNCHANGED <<ready, current, intr, interruptible, fut, aw, main_task, result,
                   nawait, watch, exc, round, spawnedIn, spawner, bodyErr,
                   interrupted>>
    /\ UNCHANGED <<limVars, pmapVars, runVars, slotVars, ctxVars, futVars, aioVars, thrVars,
                   cancelCalls, timed>>

\* `async with new_scope(timeout=...)`: new_scope takes no argument, the call
\* raises TypeError and the statement is over before its body starts.
EnterTimedScope(m) ==
    /\ current = m
    /\ \/ pc[m] = "start" /\ inj.kind = "start"
       \/ pc[m] = "after" /\ round[m] < MaxRounds
    /\ timed' = timed \cup {<<m, round[m] + 1>>}
    /\ round' = [round EXCEPT ![m] = @ + 1]
    /\ spawnedIn' = [spawnedIn EXCEPT ![m] = {}]
    /\ bodyErr' = [bodyErr EXCEPT ![m] = NoRes]
    /\ exc' = [exc EXCEPT ![m] = NoInj]
    /\ sres' = [sres EXCEPT ![m] = NoTimeout(m)]
    /\ pc' = [pc EXCEPT ![m] = "after"]
    /\ inj' = NoInj
    /\ UNCHANGED <<ready, current, intr, interruptible, fut, aw, main_task, result,
                   nawait, tasks, watch, spawner, interrupted>>
    /\ UNCHANGED <<limVars, pmapVars, runVars, slotVars, ctxVars, futVars, aioVars, thrVars,
                   cancelCalls, suppress_context>>

\* After the statement the task catches what it raised, if anything, and
\* enters another scope.
AfterNewScope(m) ==
    /\ current = m
    /\ pc[m] = "after"
    /\ round[m] < MaxRounds
    /\ EnterScope(m)
    /\ UNCHANGED <<ready, current, inj, intr, interruptible, fut, aw, main_task,
                   result, nawait, watch, spawner, interrupted>>
    /\ UNCHANGED outsideScope

\* After the statement the task ends: with the error the statement raised,
\* or normally.
AfterEnd(m) ==
    /\ current = m
    /\ pc[m] = "after"
    /\ Finish(m, sres[m])
    /\ UNCHANGED <<interruptible, aw, main_task, nawait, scopeVars>>
    /\ UNCHANGED outsideScope

-----------------------------------------------------------------------------
\* Scope._run(func) in a spawned task: `try: await func() finally:
\* tasks.discard(task)`.  func awaits futures, spawns into the scope, returns
\* or raises.

\* The task is running the code of func.
InFunc(c) ==
    /\ current = c
    /\ \/ pc[c] = "c_run"
       \/ pc[c] = "start" /\ inj.kind = "start"

ChildAwait(c) ==
    /\ InFunc(c)
    /\ nawait < MaxAwaits
    /\ AwaitExt(c, "c_await")
    /\ UNCHANGED <<ready, intr, interruptible, main_task, result, scopeVars>>
    /\ UNCHANGED outsideScope

ChildResume(c) ==
    /\ current = c
    /\ pc[c] = "c_await"
    /\ inj.kind = "ok"
    /\ pc' = [pc EXCEPT ![c] = "c_run"]
    /\ inj' = NoInj
    /\ UNCHANGED <<ready, current, intr, interruptible, fut, aw, main_task, result,
                   nawait, scopeVars>>
    /\ UNCHANGED outsideScope

\* func spawns another task into the scope it runs in.
ChildSpawn(c) ==
    /\ InFunc(c)
    /\ CanSpawn
    /\ ScopeSpawnFrom(main_task[c], c, [pc EXCEPT ![c] = "c_run"])
    /\ inj' = NoInj
    /\ UNCHANGED <<current, intr, interruptible, fut, aw, result, nawait,
                   watch, exc, sres, round, bodyErr, interrupted>>
    /\ UNCHANGED outsideScope

\* A Scope._run without its `finally: self._tasks.discard(task)`.
ChildReturn_NoDiscard(c) ==
    /\ InFunc(c)
    /\ tasks' = tasks
    /\ Finish(c, Ok)
    /\ UNCHANGED <<interruptible, aw, main_task, nawait, watch, exc, sres, round,
                   spawnedIn, spawner, bodyErr, interrupted>>
    /\ UNCHANGED outsideScope

\* func returns, and Scope._run discards the task from the scope's set.
ChildReturn(c) ==
    /\ InFunc(c)
    /\ tasks' = [tasks EXCEPT ![main_task[c]] = @ \ {c}]
    /\ Finish(c, Ok)
    /\ UNCHANGED <<interruptible, aw, main_task, nawait, watch, exc, sres, round,
                   spawnedIn, spawner, bodyErr, interrupted>>
    /\ UNCHANGED outsideScope

\* func raises: in its own code (before or after its first await), or at its
\* await of a failed future.
ChildRaise(c) ==
    /\ current = c
    /\ \E e \in {Fail(c), FutErr(c)} :
          /\ IF e = Fail(c) THEN InFunc(c)
                            ELSE pc[c] = "c_await" /\ inj.kind = "err"
          /\ Finish(c, e)
    /\ tasks' = [tasks EXCEPT ![main_task[c]] = @ \ {c}]
    /\ UNCHANGED <<interruptible, aw, main_task, nawait, watch, exc, sres, round,
                   spawnedIn, spawner, bodyErr, interrupted>>
    /\ UNCHANGED outsideScope

\* The task is interrupted at its await: the Interrupt leaves the coroutine
\* through the finally clause.
ChildInterrupted(c) ==
    /\ current = c
    /\ pc[c] = "c_await"
    /\ inj.kind = "intr"
    /\ tasks' = [tasks EXCEPT ![main_task[c]] = @ \ {c}]
    /\ Finish(c, Interrupted(inj.src))
    /\ UNCHANGED <<interruptible, aw, main_task, nawait, watch, exc, sres, round,
                   spawnedIn, spawner, bodyErr, interrupted>>
    /\ UNCHANGED outsideScope

\* The task is interrupted before its first advance: the Interrupt is thrown
\* into a coroutine that has not started, so the try block is never entered
\* and the task stays in the scope's set until intersection_update.
ChildKilled(c) ==
    /\ current = c
    /\ pc[c] = "start"
    /\ inj.kind = "intr"
    /\ Finish(c, Interrupted(inj.src))
    /\ UNCHANGED <<interruptible, aw, main_task, nawait, scopeVars>>
    /\ UNCHANGED outsideScope

\* The task is interrupted at its await and func raises an error of its own
\* while the Interrupt passes through it (`try: await f` with a `finally:`
\* that raises).
ChildInterruptedRaise(c) ==
    /\ current = c
    /\ pc[c] = "c_await"
    /\ inj.kind = "intr"
    /\ tasks' = [tasks EXCEPT ![main_task[c]] = @ \ {c}]
    /\ Finish(c, Fail(c))
    /\ UNCHANGED <<interruptible, aw, main_task, nawait, watch, exc, sres, round,
                   spawnedIn, spawner, bodyErr, interrupted>>
    /\ UNCHANGED outsideScope

\* func calls scope.cancel() on the scope it runs in, which is still open:
\* Scope has no such method, the call raises AttributeError in func.
ChildCancel(c) ==
    /\ InFunc(c)
    /\ pc[main_task[c]] \in {"body_await", "finish_wait"}
    /\ <<main_task[c], round[main_task[c]]>> \notin cancelCalls
    /\ cancelCalls' = cancelCalls \cup {<<main_task[c], round[main_task[c]]>>}
    /\ tasks' = [tasks EXCEPT ![main_task[c]] = @ \ {c}]
    /\ Finish(c, NoCancel(c))
    /\ UNCHANGED <<interruptible, aw, main_task, nawait, watch, exc, sres, round,
                   spawnedIn, spawner, bodyErr, interrupted>>
    /\ UNCHANGED <<limVars, pmapVars, runVars, slotVars, ctxVars, futVars, aioVars, thrVars,
                   timed, suppress_context>>

-----------------------------------------------------------------------------
\* Limiter.

\* capacity=None: no limit.
NoLimit == -1

\* Limiter.__init__
InitLimiter(c) ==
    /\ capacity = c
    /\ count = 0
    /\ waiters = <<>>
    /\ available_waiters = <<>>

InitLimHistory ==
    /\ arrivals = <<>>
    /\ acquired = <<>>
    /\ abandoned = {}
    /\ nintr = 0

\* The programs without a limiter.
InitLimIdle == InitLimiter(NoLimit) /\ InitLimHistory

\* A limiter that never reports itself full.
is_available_Always == TRUE

\* Limiter.is_available
is_available == capacity = NoLimit \/ count < capacity

\* The future a task awaits in __aenter__ is still unset: try_set_result on it
\* succeeds.  The future of a task that was interrupted there is cancelled
\* and stays in the deque.
LiveWaiter(t) == aw[t] = "lim" /\ fut[t] = "unset"
LiveAvailable(t) == aw[t] = "avail" /\ fut[t] = "unset"

\* Limiter._release: count -= 1, the head of waiters is popped and its future
\* fulfilled, the availability waiters are fulfilled and the list is cleared.
\* The futures and the ready queue after _release, from given ones.
ReleaseWakes_Never == FALSE
ReleaseWakes == waiters # <<>> /\ LiveWaiter(Head(waiters))
ReleaseFutFrom(F) ==
    [u \in Task |-> IF \/ ReleaseWakes /\ u = Head(waiters)
                       \/ InSeq(u, available_waiters) /\ LiveAvailable(u)
                    THEN "ok" ELSE F[u]]
ReleaseReadyFrom(q) ==
    EnqAll(IF ReleaseWakes THEN Enq(q, Head(waiters)) ELSE q,
           SelectSeq(available_waiters, LiveAvailable))
ReleaseFut == ReleaseFutFrom(fut)
ReleaseReady == ReleaseReadyFrom(ready)
Release ==
    /\ count' = count - 1
    /\ waiters' = IF waiters # <<>> THEN Tail(waiters) ELSE waiters
    /\ available_waiters' = <<>>

\* The limiter program: every task runs
\*     [await g]; async with limiter: [await f ...]
\* and may be interrupted from outside while it is suspended.

MaxCap == 2     \* largest capacity of the limiter program
MaxIntr == 1    \* interrupts posted from outside
MaxLimAwaits == 3   \* awaits of external futures over the limiter program's run

\* The tasks of the limiter program.
LimUsers == 1..(MaxChildren + 1)

\* The task is about to run `async with limiter`.
Arriving(t) ==
    /\ current = t
    /\ \/ pc[t] = "start" /\ inj.kind = "start"
       \/ pc[t] = "u_pre" /\ inj.kind = "ok"

\* The task awaits a future before it comes to the limiter.
UserPre(t) ==
    /\ current = t
    /\ pc[t] = "start"
    /\ inj.kind = "start"
    /\ nawait < MaxLimAwaits
    /\ AwaitExt(t, "u_pre")
    /\ UNCHANGED <<ready, intr, interruptible, main_task, result, limVars>>
    /\ UNCHANGED outsideLim

\* Limiter.__aenter__, limiter available: count += 1.
LimEnterNow(t) ==
    /\ Arriving(t)
    /\ is_available
    /\ count' = count + 1
    /\ arrivals' = Append(arrivals, t)
    /\ acquired' = Append(acquired, t)
    /\ pc' = [pc EXCEPT ![t] = "l_in"]
    /\ inj' = NoInj
    /\ UNCHANGED <<ready, current, intr, interruptible, fut, aw, main_task, result,
                   nawait, capacity, waiters, available_waiters, abandoned, nintr>>
    /\ UNCHANGED outsideLim

\* Limiter.__aenter__, limiter full: append a future to waiters and await it.
LimEnqueue(t) ==
    /\ Arriving(t)
    /\ ~is_available
    /\ waiters' = Append(waiters, t)
    /\ arrivals' = Append(arrivals, t)
    /\ fut' = [fut EXCEPT ![t] = "unset"]
    /\ aw' = [aw EXCEPT ![t] = "lim"]
    /\ pc' = [pc EXCEPT ![t] = "l_wait"]
    /\ current' = NoTask
    /\ inj' = NoInj
    /\ UNCHANGED <<ready, intr, interruptible, main_task, result, nawait, capacity,
                   count, available_waiters, acquired, abandoned, nintr>>
    /\ UNCHANGED outsideLim

\* Limiter.__aenter__ after `await f`: count += 1.
LimAdmitted(t) ==
    /\ current = t
    /\ pc[t] = "l_wait"
    /\ inj.kind = "ok"
    /\ count' = count + 1
    /\ acquired' = Append(acquired, t)
    /\ pc' = [pc EXCEPT ![t] = "l_in"]
    /\ inj' = NoInj
    /\ UNCHANGED <<ready, current, intr, interruptible, fut, aw, main_task, result,
                   nawait, capacity, waiters, available_waiters, arrivals, abandoned,
                   nintr>>
    /\ UNCHANGED outsideLim

\* An __aenter__ whose failed wait gives back a slot it never took.
LimWaitFail_Release(t) ==
    /\ current = t
    /\ pc[t] = "l_wait"
    /\ inj.kind = "intr"
    /\ abandoned' = abandoned \cup {t}
    /\ count' = count - 1
    /\ Finish(t, Interrupted(inj.src))
    /\ UNCHANGED <<interruptible, aw, main_task, nawait, capacity, waiters,
                   available_waiters, arrivals, acquired, nintr>>
    /\ UNCHANGED outsideLim

\* The task is interrupted at `await f` in __aenter__: the Interrupt leaves
\* __aenter__ before count += 1, and the task ends.
LimWaitFail(t) ==
    /\ current = t
    /\ pc[t] = "l_wait"
    /\ inj.kind = "intr"
    /\ abandoned' = abandoned \cup {t}
    /\ Finish(t, Interrupted(inj.src))
    /\ UNCHANGED <<interruptible, aw, main_task, nawait, capacity, count, waiters,
                   available_waiters, arrivals, acquired, nintr>>
    /\ UNCHANGED outsideLim

\* The block awaits a future.
LimBodyAwait(t) ==
    /\ current = t
    /\ pc[t] = "l_in"
    /\ nawait < MaxLimAwaits
    /\ AwaitExt(t, "l_body")
    /\ UNCHANGED <<ready, intr, interruptible, main_task, result, limVars>>
    /\ UNCHANGED outsideLim

LimBodyResume(t) ==
    /\ current = t
    /\ pc[t] = "l_body"
    /\ inj.kind = "ok"
    /\ pc' = [pc EXCEPT ![t] = "l_in"]
    /\ inj' = NoInj
    /\ UNCHANGED <<ready, current, intr, interruptible, fut, aw, main_task, result,
                   nawait, limVars>>
    /\ UNCHANGED outsideLim

\* Limiter.__aexit__: the block ends, or an error or an Interrupt is raised at
\* its await; either way _release runs, and then the task ends.
LimExit(t) ==
    /\ current = t
    /\ IF pc[t] = "l_in" THEN TRUE
       ELSE pc[t] = "l_body" /\ inj.kind \in {"err", "intr"}
    /\ Release
    /\ FinishFrom(t, IF pc[t] = "l_in" THEN Ok
                     ELSE IF inj.kind = "intr" THEN Interrupted(inj.src)
                     ELSE inj.err,
                  ReleaseReady, ReleaseFut)
    /\ UNCHANGED <<interruptible, aw, main_task, nawait, capacity, arrivals, acquired,
                   abandoned, nintr>>
    /\ UNCHANGED outsideLim

\* The await before the limiter fails or is interrupted: the task ends.
UserPreFail(t) ==
    /\ current = t
    /\ pc[t] = "u_pre"
    /\ inj.kind \in {"err", "intr"}
    /\ Finish(t, IF inj.kind = "intr" THEN Interrupted(inj.src) ELSE inj.err)
    /\ UNCHANGED <<interruptible, aw, main_task, nawait, limVars>>
    /\ UNCHANGED outsideLim

\* Task.interrupt called from outside the program on a suspended task: by the
\* except clause of an enclosing scope, or by the task's own scope when a task
\* spawned in it fails.
ExtInterrupt(t) ==
    /\ nintr < MaxIntr
    /\ t # current
    /\ pc[t] \in {"u_pre", "l_wait", "l_body"}
    /\ intr' = IntrPost(intr, t, NoTask, ScopeExited(NoTask))
    /\ ready' = EnqAll(ready, Wakes(<<t>>))
    /\ nintr' = nintr + 1
    /\ UNCHANGED <<pc, current, inj, interruptible, fut, aw, main_task, result,
                   nawait, capacity, count, waiters, available_waiters, arrivals,
                   acquired, abandoned>>
    /\ UNCHANGED outsideLim

InitLim ==
    /\ pc = [t \in Task |-> IF t \in LimUsers THEN "start" ELSE "unborn"]
    /\ ready = [i \in LimUsers |-> i]
    /\ current = NoTask
    /\ inj = NoInj
    /\ intr = [t \in Task |-> NoIntr]
    /\ interruptible = [t \in Task |-> TRUE]
    /\ fut = [t \in Task |-> "none"]
    /\ aw = [t \in Task |-> "none"]
    /\ main_task = [t \in Task |-> NoTask]
    /\ result = [t \in Task |-> NoRes]
    /\ nawait = 0
    /\ \E c \in 1..MaxCap : InitLimiter(c)
    /\ InitLimHistory

LimNext ==
    \E t \in Task :
        \/ UserPre(t)
        \/ LimEnterNow(t)
        \/ LimEnqueue(t)
        \/ LimAdmitted(t)
        \/ LimWaitFail(t)
        \/ LimBodyAwait(t)
        \/ LimBodyResume(t)
        \/ LimExit(t)
        \/ UserPreFail(t)
        \/ ExtInterrupt(t)

-----------------------------------------------------------------------------
\* The scope program: run(main), where main runs MaxRounds scope statements
\* and the tasks spawned in them run func.

MainT == 1
Children == Task \ {MainT}

InitCore ==
    /\ pc = [t \in Task |-> IF t = MainT THEN "start" ELSE "unborn"]
    /\ ready = <<MainT>>
    /\ current = NoTask
    /\ inj = NoInj
    /\ intr = [t \in Task |-> NoIntr]
    /\ interruptible = [t \in Task |-> TRUE]
    /\ fut = [t \in Task |-> "none"]
    /\ aw = [t \in Task |-> "none"]
    /\ main_task = [t \in Task |-> NoTask]
    /\ result = [t \in Task |-> NoRes]
    /\ nawait = 0

InitScope ==
    /\ tasks = [t \in Task |-> {}]
    /\ watch = [t \in Task |-> {}]
    /\ exc = [t \in Task |-> NoInj]
    /\ sres = [t \in Task |-> NoRes]
    /\ round = [t \in Task |-> 0]
    /\ spawnedIn = [t \in Task |-> {}]
    /\ spawner = [t \in Task |-> NoTask]
    /\ bodyErr = [t \in Task |-> NoRes]
    /\ interrupted = {}

\* The programs without a parallel map.
InitPmapIdle ==
    /\ xs = <<>>
    /\ limit = NoLimit
    /\ next_in = 0
    /\ widx = [t \in Task |-> 0]
    /\ cbuf = <<>>
    /\ cdone = FALSE
    /\ cerror = NoRes
    /\ buffer = {}
    /\ next_idx = 0
    /\ out = <<>>
    /\ added = <<>>

\* No value, no function, no call of run.
NoVal == "none"
NoProg == [n |-> 0, end |-> "none", val |-> NoVal]
NoRun == [kind |-> "none", val |-> NoVal, err |-> NoRes, task |-> NoTask]
NoView == [active |-> {}, ready |-> <<>>, pcs |-> <<>>, unset |-> {}]

\* The programs that call run once, from outside.
InitRunIdle ==
    /\ saved = <<>>
    /\ owner = [t \in Task |-> 1]
    /\ prog = [t \in Task |-> NoProg]
    /\ nstep = [t \in Task |-> 0]
    /\ retval = [t \in Task |-> NoVal]
    /\ runres = [k \in 0..NTasks |-> NoRun]
    /\ nest = [state |-> "none", before |-> NoView, after |-> NoView]

\* No Slot object, no assignment to capacity.
InitSlotIdle ==
    /\ called = [t \in Task |-> FALSE]
    /\ nrel = [t \in Task |-> 0]
    /\ nresize = 0
    /\ shrunk = FALSE

\* No call of cancel, no timeout asked for, no error raised by a scope yet.
InitApiIdle ==
    /\ cancelCalls = {}
    /\ timed = {}
    /\ suppress_context = {}

\* The programs that bind no context variable.
InitCtxIdle ==
    /\ ctx = <<>>
    /\ seen = <<>>

\* The programs that handle no future object of their own.
InitFutIdle ==
    /\ outcome = <<>>
    /\ callbacks = <<>>
    /\ fired = <<>>
    /\ waitsOn = <<>>
    /\ nops = 0

\* The programs that are not driven from asyncio.
InitAioIdle ==
    /\ drv = "none"
    /\ axc = NoRes
    /\ aiores = NoRun
    /\ ncancel = 0
    /\ signals = FALSE
    /\ flushed = FALSE

\* The programs that do not throttle an iterable.
InitThrIdle ==
    /\ niter = 0
    /\ taken = [t \in Task |-> 0]
    /\ yielded = [t \in Task |-> <<>>]
    /\ gates = [t \in Task |-> 0]

InitOtherIdle ==
    InitSlotIdle /\ InitThrIdle /\ InitApiIdle /\ InitCtxIdle /\ InitFutIdle /\ InitAioIdle

Init == InitCore /\ InitScope /\ InitLimIdle /\ InitPmapIdle /\ InitRunIdle
           /\ InitOtherIdle

MainNext ==
    \/ MainStart(MainT)
    \/ BodySpawn(MainT)
    \/ BodyAwait(MainT)
    \/ BodyResume(MainT)
    \/ BodyRaise(MainT)
    \/ MainInterrupted(MainT)
    \/ BodyEnd(MainT)
    \/ FinishLoop(MainT)
    \/ ScopeExit(MainT)
    \/ ScopeRaise(MainT)
    \/ AfterNewScope(MainT)
    \/ AfterEnd(MainT)

ChildNext ==
    \E c \in Children :
        \/ ChildAwait(c)
        \/ ChildResume(c)
        \/ ChildSpawn(c)
        \/ ChildReturn(c)
        \/ ChildRaise(c)
        \/ ChildInterrupted(c)
        \/ ChildKilled(c)

Next ==
    \/ Tick
    \/ \E t \in Task : Complete(t)
    \/ MainNext
    \/ ChildNext

Spec == Init /\ [][Next]_vars

\* The scope program whose tasks also use the calls of the tests that Scope
\* and new_scope do not have: scope.cancel() and new_scope(timeout=...).
NextApi ==
    \/ Next
    \/ EnterTimedScope(MainT)
    \/ \E c \in Children : ChildCancel(c)

SpecApi == Init /\ [][NextApi]_vars

\* The scope program with tasks that raise while they are being interrupted.
NextCleanup ==
    \/ Next
    \/ \E c \in Children : ChildInterruptedRaise(c)

SpecCleanup == Init /\ [][NextCleanup]_vars

\* The scope program with the ticks of the scheduler that runs it: run loops
\* scheduler.tick() until the root task is done, and the tasks may await
\* futures that are already completed.

\* Where the loop of run is, and the number of the tick.
TickDrv(at, n) == [mod |-> "run", at |-> at, n |-> n]

\* func awaits a future that is terminal already (completed_future): the
\* task is suspended and ready at once.
ChildAwaitDone(c) ==
    /\ InFunc(c)
    /\ nawait < MaxAwaits
    /\ pc' = [pc EXCEPT ![c] = "c_await"]
    /\ fut' = [fut EXCEPT ![c] = "ok"]
    /\ aw' = [aw EXCEPT ![c] = "set"]
    /\ ready' = Enq(ready, c)
    /\ nawait' = nawait + 1
    /\ current' = NoTask
    /\ inj' = NoInj
    /\ UNCHANGED <<intr, interruptible, main_task, result, scopeVars>>
    /\ UNCHANGED outsideScope

\* tick() is called and finds a task ready (it waits for one otherwise).
TickBegin ==
    /\ drv.at = "loop"
    /\ ready # <<>>
    /\ drv' = TickDrv("tick", drv.n + 1)
    /\ UNCHANGED <<coreVars, scopeVars, limVars, pmapVars, runVars, slotVars,
                   apiVars, ctxVars, futVars, thrVars, axc, aiores, ncancel,
                   signals, flushed>>

\* tick() advances the next ready task.
TickAdvance == drv.at = "tick" /\ Tick

\* tick() returns: the ready queue is drained.
TickEnd ==
    /\ drv.at = "tick"
    /\ current = NoTask
    /\ ready = <<>>
    /\ drv' = TickDrv("loop", drv.n)
    /\ UNCHANGED <<coreVars, scopeVars, limVars, pmapVars, runVars, slotVars,
                   apiVars, ctxVars, futVars, thrVars, axc, aiores, ncancel,
                   signals, flushed>>

InitTick ==
    /\ drv = TickDrv("loop", 0)
    /\ axc = NoRes
    /\ aiores = NoRun
    /\ ncancel = 0
    /\ signals = FALSE
    /\ flushed = FALSE

InitTk ==
    /\ InitCore /\ InitScope /\ InitLimIdle /\ InitPmapIdle /\ InitRunIdle
    /\ InitSlotIdle /\ InitThrIdle /\ InitApiIdle /\ InitCtxIdle /\ InitFutIdle
    /\ InitTick

\* A future is completed from outside with a value.
CompleteOk(t) == Complete(t) /\ fut'[t] = "ok"

\* The main task runs its scopes to their normal end, and no future fails.
NextTk ==
    \/ TickBegin
    \/ TickAdvance
    \/ TickEnd
    \/ \E t \in Task : CompleteOk(t)
    \/ MainStart(MainT)
    \/ BodySpawn(MainT)
    \/ BodyAwait(MainT)
    \/ BodyResume(MainT)
    \/ BodyEnd(MainT)
    \/ FinishLoop(MainT)
    \/ ScopeExit(MainT)
    \/ AfterNewScope(MainT)
    \/ AfterEnd(MainT)
    \/ \E c \in Children :
          \/ ChildAwait(c)
          \/ ChildAwaitDone(c)
          \/ ChildResume(c)
          \/ ChildSpawn(c)
          \/ ChildReturn(c)

SpecTick == InitTk /\ [][NextTk]_vars

-----------------------------------------------------------------------------
\* Context variables (contextvars) in the tasks of a scope.

\* The context variables the program uses, their values, and the context of
\* a task that does not exist yet.
CtxVar == {"B"}
CtxVal == {"outer", "inner", "local"}
NoCtx == [v \in CtxVar |-> "unset"]

\* contextvars.copy_context() in Scheduler.spawn: the bindings of the task
\* that is running, as they are at the call.
copy_context(t) == ctx[t]

\* The task is running code of its own: the body of the scope, or func.
Running(t) == current = t /\ (pc[t] = "body" \/ (t # MainT /\ InFunc(t)))

\* Where the running task is after a statement that is not an await.
Stepped(t) == [pc EXCEPT ![t] = IF @ = "start" THEN "c_run" ELSE @]

\* A spawn whose task starts from an empty context.
CtxSpawn_Fresh(t) ==
    /\ Running(t)
    /\ CanSpawn
    /\ ScopeSpawnFrom(IF t = MainT THEN t ELSE main_task[t], t, Stepped(t))
    /\ ctx' = [ctx EXCEPT ![NextTask] = [v \in CtxVar |-> "outer"]]
    /\ inj' = IF pc[t] = "start" THEN NoInj ELSE inj
    /\ UNCHANGED <<current, intr, interruptible, fut, aw, result, nawait,
                   watch, exc, sres, round, bodyErr, interrupted, seen>>
    /\ UNCHANGED <<limVars, pmapVars, runVars, slotVars, apiVars, futVars, aioVars, thrVars>>

\* scope.spawn(func) by the running task: the new task gets a copy of the
\* caller's context.
CtxSpawn(t) ==
    /\ Running(t)
    /\ CanSpawn
    /\ ScopeSpawnFrom(IF t = MainT THEN t ELSE main_task[t], t, Stepped(t))
    /\ ctx' = [ctx EXCEPT ![NextTask] = copy_context(t)]
    /\ inj' = IF pc[t] = "start" THEN NoInj ELSE inj
    /\ UNCHANGED <<current, intr, interruptible, fut, aw, result, nawait,
                   watch, exc, sres, round, bodyErr, interrupted, seen>>
    /\ UNCHANGED <<limVars, pmapVars, runVars, slotVars, apiVars, futVars, aioVars, thrVars>>

\* var.set(x) in the running task: anywhere in the body, and in func after
\* its first statement.
CtxSet(t, v, x) ==
    /\ Running(t)
    /\ pc[t] # "start"
    /\ ctx[t][v] # x
    /\ ctx' = [ctx EXCEPT ![t][v] = x]
    /\ pc' = Stepped(t)
    /\ inj' = IF pc[t] = "start" THEN NoInj ELSE inj
    /\ UNCHANGED <<ready, current, intr, interruptible, fut, aw, main_task, result,
                   nawait, scopeVars, seen>>
    /\ UNCHANGED <<limVars, pmapVars, runVars, slotVars, apiVars, futVars, aioVars, thrVars>>

\* var.get() of every variable in the running task, recorded once per task:
\* anywhere in the body, and as the first statement of func.
CtxGet(t) ==
    /\ Running(t)
    /\ t = MainT \/ pc[t] = "start"
    /\ seen[t] = NoCtx
    /\ seen' = [seen EXCEPT ![t] = ctx[t]]
    /\ pc' = Stepped(t)
    /\ inj' = IF pc[t] = "start" THEN NoInj ELSE inj
    /\ UNCHANGED <<ready, current, intr, interruptible, fut, aw, main_task, result,
                   nawait, scopeVars, ctx>>
    /\ UNCHANGED <<limVars, pmapVars, runVars, slotVars, apiVars, futVars, aioVars, thrVars>>

\* The program: the body spawns tasks, awaits and binds the variables to
\* "inner"; the spawned tasks await, bind them to "local" and return; the
\* futures awaited complete with a result.
CtxComplete(t) == Complete(t) /\ fut'[t] = "ok"

\* duet.run(func) called where every variable is bound to "outer".
InitCtx ==
    /\ ctx = [t \in Task |-> IF t = MainT THEN [v \in CtxVar |-> "outer"] ELSE NoCtx]
    /\ seen = [t \in Task |-> NoCtx]

InitC == InitCore /\ InitScope /\ InitLimIdle /\ InitPmapIdle /\ InitRunIdle
            /\ InitSlotIdle /\ InitThrIdle /\ InitApiIdle /\ InitCtx /\ InitFutIdle /\ InitAioIdle

NextC ==
    \/ Tick
    \/ \E t \in Task : CtxComplete(t)
    \/ MainStart(MainT)
    \/ BodyAwait(MainT)
    \/ BodyResume(MainT)
    \/ BodyEnd(MainT)
    \/ FinishLoop(MainT)
    \/ ScopeExit(MainT)
    \/ AfterEnd(MainT)
    \/ CtxSpawn(MainT)
    \/ \E c \in Children :
        \/ ChildAwait(c)
        \/ ChildResume(c)
        \/ ChildReturn(c)
    \/ \E t \in Task :
        \/ CtxGet(t)
        \/ \E v \in CtxVar : CtxSet(t, v, IF t = MainT THEN "inner" ELSE "local")

SpecCtx == InitC /\ [][NextC]_vars

-----------------------------------------------------------------------------
\* Futures as objects: AwaitableFuture (duet.futuretools).

MaxSets == 2        \* set / try_set / cancel calls made on one future
NFuts == 2
Fut == 1..NFuts
NoFut == 0
\* The tasks that await the futures.
FutUsers == 1..2
Outcomes == {"ok", "err", "cancelled"}

\* A future that takes every set for the first one.
IsTerminal_Never(f) == FALSE

\* Future.done(): the outcome is set.
IsTerminal(f) == outcome[f] # "unset"

\* `await f` in the running task: the task's callback is added to f and the
\* task is suspended; on a terminal future the callback is invoked at once.
FutAwait(t, f) ==
    /\ current = t
    /\ \/ pc[t] = "f_run"
       \/ pc[t] = "start" /\ inj.kind = "start"
    /\ nawait < MaxAwaits
    /\ nawait' = nawait + 1
    /\ waitsOn' = [waitsOn EXCEPT ![t] = f]
    /\ callbacks' = IF outcome[f] # "unset" THEN callbacks
                    ELSE [callbacks EXCEPT ![f] = Append(@, t)]
    /\ fut' = [fut EXCEPT ![t] = outcome[f]]
    /\ aw' = [aw EXCEPT ![t] = "obj"]
    /\ ready' = IF outcome[f] # "unset" THEN Enq(ready, t) ELSE ready
    /\ pc' = [pc EXCEPT ![t] = "f_await"]
    /\ current' = NoTask
    /\ inj' = NoInj
    /\ UNCHANGED <<intr, interruptible, main_task, result, outcome, fired, nops>>
    /\ UNCHANGED <<scopeVars, limVars, pmapVars, runVars, slotVars, apiVars, ctxVars,
                   aioVars, thrVars>>

\* The await returns or raises what the future holds, and the task goes on.
FutResume(t) ==
    /\ current = t
    /\ pc[t] = "f_await"
    /\ inj.kind \in Outcomes
    /\ pc' = [pc EXCEPT ![t] = "f_run"]
    /\ waitsOn' = [waitsOn EXCEPT ![t] = NoFut]
    /\ fut' = [fut EXCEPT ![t] = "none"]
    /\ aw' = [aw EXCEPT ![t] = "none"]
    /\ inj' = NoInj
    /\ UNCHANGED <<ready, current, intr, interruptible, main_task, result, nawait,
                   outcome, callbacks, fired, nops>>
    /\ UNCHANGED <<scopeVars, limVars, pmapVars, runVars, slotVars, apiVars, ctxVars,
                   aioVars, thrVars>>

\* The task returns.
FutReturn(t) ==
    /\ current = t
    /\ \/ pc[t] = "f_run"
       \/ pc[t] = "start" /\ inj.kind = "start"
    /\ Finish(t, Ok)
    /\ UNCHANGED <<interruptible, aw, main_task, nawait, futVars>>
    /\ UNCHANGED <<scopeVars, limVars, pmapVars, runVars, slotVars, apiVars, ctxVars,
                   aioVars, thrVars>>

\* set_result / set_exception / cancel and their try_ variants, called on f
\* from a task or from another thread: the first call sets the outcome and
\* invokes the callbacks in registration order, each marking its task ready;
\* a call on a terminal future changes nothing.
FutSettle(f, o) ==
    /\ nops[f] < MaxSets
    /\ nops' = [nops EXCEPT ![f] = @ + 1]
    /\ IF IsTerminal(f)
       THEN UNCHANGED <<outcome, fired, ready, fut>>
       ELSE /\ outcome' = [outcome EXCEPT ![f] = o]
            /\ fired' = [fired EXCEPT ![f] = @ + 1]
            /\ ready' = EnqAll(ready, callbacks[f])
            /\ fut' = [t \in Task |-> IF InSeq(t, callbacks[f]) THEN o ELSE fut[t]]
    /\ UNCHANGED <<pc, current, inj, intr, interruptible, aw, main_task, result,
                   nawait, callbacks, waitsOn>>
    /\ UNCHANGED <<scopeVars, limVars, pmapVars, runVars, slotVars, apiVars, ctxVars,
                   aioVars, thrVars>>

InitFut ==
    /\ outcome = [f \in Fut |-> "unset"]
    /\ callbacks = [f \in Fut |-> <<>>]
    /\ fired = [f \in Fut |-> 0]
    /\ waitsOn = [t \in Task |-> NoFut]
    /\ nops = [f \in Fut |-> 0]

InitF ==
    /\ pc = [t \in Task |-> IF t \in FutUsers THEN "start" ELSE "unborn"]
    /\ ready = [i \in FutUsers |-> i]
    /\ current = NoTask
    /\ inj = NoInj
    /\ intr = [t \in Task |-> NoIntr]
    /\ interruptible = [t \in Task |-> TRUE]
    /\ fut = [t \in Task |-> "none"]
    /\ aw = [t \in Task |-> "none"]
    /\ main_task = [t \in Task |-> NoTask]
    /\ result = [t \in Task |-> NoRes]
    /\ nawait = 0
    /\ InitScope /\ InitLimIdle /\ InitPmapIdle /\ InitRunIdle
    /\ InitSlotIdle /\ InitThrIdle /\ InitApiIdle /\ InitCtxIdle /\ InitFut /\ InitAioIdle

NextF ==
    \/ Tick
    \/ \E t \in FutUsers :
        \/ \E f \in Fut : FutAwait(t, f)
        \/ FutResume(t)
        \/ FutReturn(t)
    \/ \E f \in Fut, o \in Outcomes : FutSettle(f, o)

SpecFut == InitF /\ [][NextF]_vars

InitL == InitLim /\ InitScope /\ InitPmapIdle /\ InitRunIdle /\ InitOtherIdle

NextL ==
    \/ Tick
    \/ \E t \in Task : Complete(t)
    \/ LimNext

SpecLim == InitL /\ [][NextL]_vars

\* The limiter program whose tasks come to the limiter at their first
\* advance: every task runs `async with limiter: [await f ...]`.
NextLC ==
    \/ Tick
    \/ \E t \in Task : Complete(t)
    \/ \E t \in Task :
          \/ LimEnterNow(t)
          \/ LimEnqueue(t)
          \/ LimAdmitted(t)
          \/ LimWaitFail(t)
          \/ LimBodyAwait(t)
          \/ LimBodyResume(t)
          \/ LimExit(t)
          \/ ExtInterrupt(t)

SpecLimCancel == InitL /\ [][NextLC]_vars

\* The limiter program with a capacity that is reassigned while it runs.

MaxResize == 1      \* assignments to Limiter.capacity

\* `limiter.capacity = c`: a plain attribute assignment, made by a task other
\* than the users while it is being advanced, that is between two advances of
\* the users.
SetCapacity(c) ==
    /\ current = NoTask
    /\ nresize < MaxResize
    /\ c # capacity
    /\ capacity' = c
    /\ nresize' = nresize + 1
    /\ shrunk' = (shrunk \/ c < count)
    /\ UNCHANGED <<coreVars, count, waiters, available_waiters, arrivals, acquired,
                   abandoned, nintr, called, nrel>>
    /\ UNCHANGED <<scopeVars, pmapVars, runVars, apiVars, ctxVars, futVars, aioVars, thrVars>>

NextLR ==
    \/ NextL
    \/ \E c \in 1..MaxCap : SetCapacity(c)

SpecLimResize == InitL /\ [][NextLR]_vars

\* The limiter program with a reassigned capacity in which no task is
\* interrupted.  The scheduler's loop ticks while a task is ready and every
\* awaited future is completed in the end, so a step that can be taken is
\* taken.
NextLF ==
    \/ Tick
    \/ \E t \in Task : Complete(t)
    \/ \E t \in Task :
          \/ LimEnterNow(t)
          \/ LimEnqueue(t)
          \/ LimAdmitted(t)
          \/ LimBodyAwait(t)
          \/ LimBodyResume(t)
          \/ LimExit(t)
    \/ \E c \in 1..MaxCap : SetCapacity(c)

SpecLimFair == InitL /\ [][NextLF]_vars /\ WF_vars(NextLF)

\* The throttle program: the limiter's users run `async with limiter` as in
\* the limiter program, and the throttling tasks run
\*     async for value in limiter.throttle(range(1, niter + 1)): use(value)

MaxThrItems == 2    \* length of the longest iterable given to throttle

\* The last two tasks throttle an iterable, the others use the limiter.
Throttlers == {NTasks - 1, NTasks}
ThrUsers == Task \ Throttlers

outsideThr == <<scopeVars, pmapVars, runVars, slotVars, apiVars, ctxVars, futVars,
                aioVars>>

\* The task is at the head of throttle's `async for`.
AtLoop(t) ==
    /\ current = t
    /\ \/ pc[t] = "start" /\ inj.kind = "start"
       \/ pc[t] = "t_loop"

\* An available() that returns at once when the limiter is available.
Available_NoYield(t) ==
    /\ IF is_available
       THEN /\ gates' = [gates EXCEPT ![t] = @ + 1]
            /\ yielded' = [yielded EXCEPT ![t] = Append(@, taken[t] + 1)]
            /\ pc' = [pc EXCEPT ![t] = "t_loop"]
            /\ inj' = NoInj
            /\ UNCHANGED <<fut, aw, current, ready, available_waiters>>
       ELSE /\ available_waiters' = Append(available_waiters, t)
            /\ fut' = [fut EXCEPT ![t] = "unset"]
            /\ aw' = [aw EXCEPT ![t] = "avail"]
            /\ pc' = [pc EXCEPT ![t] = "t_gate"]
            /\ current' = NoTask
            /\ inj' = NoInj
            /\ UNCHANGED <<ready, yielded, gates>>

\* Limiter.available: a new future f is fulfilled at once if the limiter is
\* available and appended to available_waiters otherwise; `await f` suspends
\* the task in both cases, and a task that awaits a terminal future is ready.
Available(t) ==
    /\ fut' = [fut EXCEPT ![t] = IF is_available THEN "ok" ELSE "unset"]
    /\ available_waiters' = IF is_available THEN available_waiters
                            ELSE Append(available_waiters, t)
    /\ aw' = [aw EXCEPT ![t] = IF is_available THEN "set" ELSE "avail"]
    /\ ready' = IF is_available THEN Enq(ready, t) ELSE ready
    /\ pc' = [pc EXCEPT ![t] = "t_gate"]
    /\ current' = NoTask
    /\ inj' = NoInj
    /\ UNCHANGED <<yielded, gates>>

\* A throttle that takes a slot of the limiter for every value.
ThrNext_Acquire(t) ==
    /\ AtLoop(t)
    /\ taken[t] < niter
    /\ taken' = [taken EXCEPT ![t] = @ + 1]
    /\ count' = count + 1
    /\ Available(t)
    /\ UNCHANGED <<intr, interruptible, main_task, result, nawait, capacity,
                   waiters, arrivals, acquired, abandoned, nintr, niter>>
    /\ UNCHANGED outsideThr

\* Limiter.throttle: the `async for` takes the next value of the iterable and
\* awaits available().
ThrNext(t) ==
    /\ AtLoop(t)
    /\ taken[t] < niter
    /\ taken' = [taken EXCEPT ![t] = @ + 1]
    /\ Available(t)
    /\ UNCHANGED <<intr, interruptible, main_task, result, nawait, capacity, count,
                   waiters, arrivals, acquired, abandoned, nintr, niter>>
    /\ UNCHANGED outsideThr

\* Limiter.throttle after `await self.available()`: `yield value`, and the
\* consumer's loop body runs.
ThrYield(t) ==
    /\ current = t
    /\ pc[t] = "t_gate"
    /\ inj.kind = "ok"
    /\ gates' = [gates EXCEPT ![t] = @ + 1]
    /\ yielded' = [yielded EXCEPT ![t] = Append(@, taken[t])]
    /\ pc' = [pc EXCEPT ![t] = "t_loop"]
    /\ inj' = NoInj
    /\ UNCHANGED <<ready, current, intr, interruptible, fut, aw, main_task, result,
                   nawait, limVars, niter, taken>>
    /\ UNCHANGED outsideThr

\* The iterable is exhausted: throttle ends, and so do the loop and the task.
ThrEnd(t) ==
    /\ AtLoop(t)
    /\ taken[t] = niter
    /\ Finish(t, Ok)
    /\ UNCHANGED <<interruptible, aw, main_task, nawait, limVars, thrVars>>
    /\ UNCHANGED outsideThr

InitThr ==
    /\ niter \in 0..MaxThrItems
    /\ taken = [t \in Task |-> 0]
    /\ yielded = [t \in Task |-> <<>>]
    /\ gates = [t \in Task |-> 0]

InitThrottle ==
    /\ pc = [t \in Task |-> "start"]
    /\ ready = [i \in Task |-> i]
    /\ current = NoTask
    /\ inj = NoInj
    /\ intr = [t \in Task |-> NoIntr]
    /\ interruptible = [t \in Task |-> TRUE]
    /\ fut = [t \in Task |-> "none"]
    /\ aw = [t \in Task |-> "none"]
    /\ main_task = [t \in Task |-> NoTask]
    /\ result = [t \in Task |-> NoRes]
    /\ nawait = 0
    /\ \E c \in 1..MaxCap : InitLimiter(c)
    /\ InitLimHistory

InitT ==
    /\ InitThrottle /\ InitScope /\ InitPmapIdle /\ InitRunIdle
    /\ InitSlotIdle /\ InitThr /\ InitApiIdle /\ InitCtxIdle /\ InitFutIdle
    /\ InitAioIdle

NextT ==
    \/ Tick
    \/ \E t \in ThrUsers : Complete(t)
    \/ \E t \in ThrUsers :
          \/ UserPre(t)
          \/ LimEnterNow(t)
          \/ LimEnqueue(t)
          \/ LimAdmitted(t)
          \/ LimBodyAwait(t)
          \/ LimBodyResume(t)
          \/ LimExit(t)
          \/ UserPreFail(t)
    \/ \E t \in Throttlers :
          \/ ThrNext(t)
          \/ ThrYield(t)
          \/ ThrEnd(t)

SpecThrottle == InitT /\ [][NextT]_vars

-----------------------------------------------------------------------------
\* The pmap program: run(pmap_async, func, xs, limit).  The root task is the
\* consumer: it opens a scope, spawns generate into it and drains the
\* collector.  generate opens gen_scope and spawns one worker per input, each
\* after acquiring the limiter.  func(arg) awaits futures and returns a value
\* that depends on arg, or fails at an await.

Vals == {"a", "b"}

\* The input lists.
Inputs == UNION {[1..n -> Vals] : n \in 0..MaxInputs}

\* The value func computes from its argument.
func(x) == <<"f", x>>

InitPmap ==
    /\ xs \in Inputs
    /\ limit \in (1..MaxCap) \cup {NoLimit}
    /\ next_in = 0
    /\ widx = [t \in Task |-> 0]
    /\ cbuf = <<>>
    /\ cdone = FALSE
    /\ cerror = NoRes
    /\ buffer = {}
    /\ next_idx = 0
    /\ out = <<>>
    /\ added = <<>>

IsGen(t) == ~Unborn(t) /\ main_task[t] = MainT
IsWorker(t) == ~Unborn(t) /\ main_task[t] # NoTask /\ main_task[t] # MainT

\* AsyncCollector (duet.aitertools): add, done and error fulfil the future
\* that __anext__ awaits, if there is one.
CollWaiting == aw[MainT] = "coll" /\ fut[MainT] = "unset"
CollWakeFut(F) == IF CollWaiting THEN [F EXCEPT ![MainT] = "ok"] ELSE F
CollWakeReady(q) == IF CollWaiting THEN Enq(q, MainT) ELSE q

\* The dict `buffer` as a set of (key, value) pairs.
HasKey(b, i) == \E e \in b : e[1] = i
Get(b, i) == (CHOOSE e \in b : e[1] = i)[2]
Put(b, i, v) == {e \in b : e[1] # i} \cup {<<i, v>>}
Pop(b, i) == {e \in b : e[1] # i}

\* A loop that yields whatever the dict holds, in no particular order.
Yielded_Unordered(b, i) == IF b = {} THEN <<>> ELSE <<(CHOOSE e \in b : TRUE)[2]>>

\* An `if next_idx in buffer` in place of the `while`: one result at most is
\* yielded for each pair taken from the collector.
Yielded_Once(b, i) == IF HasKey(b, i) THEN <<Get(b, i)>> ELSE <<>>

\* `while next_idx in buffer: yield buffer.pop(next_idx); next_idx += 1`:
\* the values yielded, from dict b and index i on.
RECURSIVE Yielded(_, _)
Yielded(b, i) ==
    IF HasKey(b, i) THEN <<Get(b, i)>> \o Yielded(Pop(b, i), i + 1) ELSE <<>>

\* pmap_aiter: scope.spawn(generate).
C_SpawnGen(m) ==
    /\ current = m
    /\ pc[m] = "body"
    /\ spawnedIn[m] = {}
    /\ ScopeSpawn(m, m)
    /\ UNCHANGED <<current, inj, intr, interruptible, fut, aw, result, nawait,
                   watch, exc, sres, round, bodyErr, interrupted>>
    /\ UNCHANGED outsideScope

\* The consumer is in collector.__anext__: at the head of `async for`, or
\* back from its await of the waiter future.
AtNext(m) ==
    /\ current = m
    /\ spawnedIn[m] # {}
    /\ \/ pc[m] = "body" /\ (cdone \/ cbuf # <<>>)
       \/ pc[m] = "body_await" /\ inj.kind = "ok"

\* __anext__: nothing buffered and not done, await a new waiter future.
C_Wait(m) ==
    /\ current = m
    /\ spawnedIn[m] # {}
    /\ pc[m] = "body"
    /\ ~cdone
    /\ cbuf = <<>>
    /\ pc' = [pc EXCEPT ![m] = "body_await"]
    /\ fut' = [fut EXCEPT ![m] = "unset"]
    /\ aw' = [aw EXCEPT ![m] = "coll"]
    /\ current' = NoTask
    /\ inj' = NoInj
    /\ UNCHANGED <<ready, intr, interruptible, main_task, result, nawait, scopeVars,
                   limVars, pmapVars>>
    /\ UNCHANGED outsidePmap

\* __anext__ returns the oldest pair; the loop body stores it and yields the
\* results that are next in input order.
C_Take(m) ==
    /\ AtNext(m)
    /\ cbuf # <<>>
    /\ LET e == Head(cbuf)
           b1 == Put(buffer, e[1], e[2])
           ys == Yielded(b1, next_idx)
       IN /\ cbuf' = Tail(cbuf)
          /\ out' = out \o ys
          /\ buffer' = {x \in b1 : x[1] < next_idx \/ x[1] >= next_idx + Len(ys)}
          /\ next_idx' = next_idx + Len(ys)
    /\ pc' = [pc EXCEPT ![m] = "body"]
    /\ inj' = NoInj
    /\ UNCHANGED <<ready, current, intr, interruptible, fut, aw, main_task, result,
                   nawait, scopeVars, limVars, xs, limit, next_in, widx, cdone,
                   cerror, added>>
    /\ UNCHANGED outsidePmap

\* __anext__ raises the collector's error: it leaves pmap_aiter and the body
\* of pmap_async's scope.
C_Error(m) ==
    /\ AtNext(m)
    /\ cbuf = <<>>
    /\ cdone
    /\ cerror # NoRes
    /\ bodyErr' = [bodyErr EXCEPT ![m] = cerror]
    /\ \E ord \in Orders(Remaining(m)) :
          ExceptClause(m, [kind |-> "exc", err |-> cerror, src |-> NoTask], ord)
    /\ UNCHANGED <<main_task, result, nawait, tasks, sres, round, spawnedIn, spawner>>
    /\ UNCHANGED outsideScope

\* __anext__ raises StopAsyncIteration: the trailing `while buffer` loop
\* yields what is left (KeyError if next_idx is missing), and pmap_async
\* returns the list, which ends the body of its scope.
C_Stop(m) ==
    /\ AtNext(m)
    /\ cbuf = <<>>
    /\ cdone
    /\ cerror = NoRes
    /\ LET ys == Yielded(buffer, next_idx)
           rest == {x \in buffer : x[1] < next_idx \/ x[1] >= next_idx + Len(ys)}
       IN /\ out' = out \o ys
          /\ buffer' = rest
          /\ next_idx' = next_idx + Len(ys)
          /\ IF rest = {}
             THEN /\ AwaitAnyReady(m, tasks[m], ready, "finish_wait")
                  /\ UNCHANGED <<intr, interruptible, exc, bodyErr, interrupted>>
             ELSE /\ bodyErr' = [bodyErr EXCEPT ![m] = [e |-> "KeyError", by |-> m]]
                  /\ \E ord \in Orders(Remaining(m)) :
                        ExceptClause(m, [kind |-> "exc",
                                         err |-> [e |-> "KeyError", by |-> m],
                                         src |-> NoTask], ord)
    /\ UNCHANGED <<main_task, result, nawait, tasks, sres, round, spawnedIn, spawner,
                   limVars, xs, limit, next_in, widx, cbuf, cdone, cerror, added>>
    /\ UNCHANGED outsidePmap

\* generate starts: limiter = Limiter(limit), `async with new_scope()`.
G_Start(g) ==
    /\ current = g
    /\ IsGen(g)
    /\ pc[g] = "start"
    /\ inj.kind = "start"
    /\ capacity' = limit
    /\ count' = 0
    /\ waiters' = <<>>
    /\ available_waiters' = <<>>
    /\ EnterScope(g)
    /\ UNCHANGED <<ready, current, inj, intr, interruptible, fut, aw, main_task,
                   result, nawait, watch, spawner, interrupted, arrivals, acquired,
                   abandoned, nintr, pmapVars>>
    /\ UNCHANGED outsidePmap

\* gen_scope.spawn(task, i, arg, slot), with the limiter's count incremented
\* by the acquire before it.
SpawnWorker(g, P) ==
    /\ count' = count + 1
    /\ ScopeSpawnFrom(g, g, P)
    /\ widx' = [widx EXCEPT ![NextTask] = next_in]
    /\ next_in' = next_in + 1
    /\ UNCHANGED <<current, intr, interruptible, fut, aw, result, nawait, watch, exc,
                   sres, round, bodyErr, interrupted, capacity, waiters,
                   available_waiters, arrivals, acquired, abandoned, nintr, xs, limit,
                   cbuf, cdone, cerror, buffer, next_idx, out, added>>
    /\ UNCHANGED outsidePmap

\* The loop takes the next input; limiter.acquire() returns without waiting.
G_Spawn(g) ==
    /\ current = g
    /\ IsGen(g)
    /\ pc[g] = "body"
    /\ next_in < Len(xs)
    /\ is_available
    /\ SpawnWorker(g, pc)
    /\ UNCHANGED inj

\* The loop takes the next input; the limiter is full and acquire waits.
G_Wait(g) ==
    /\ current = g
    /\ IsGen(g)
    /\ pc[g] = "body"
    /\ next_in < Len(xs)
    /\ ~is_available
    /\ waiters' = Append(waiters, g)
    /\ fut' = [fut EXCEPT ![g] = "unset"]
    /\ aw' = [aw EXCEPT ![g] = "lim"]
    /\ pc' = [pc EXCEPT ![g] = "body_await"]
    /\ current' = NoTask
    /\ inj' = NoInj
    /\ UNCHANGED <<ready, intr, interruptible, main_task, result, nawait, scopeVars,
                   capacity, count, available_waiters, arrivals, acquired, abandoned,
                   nintr, pmapVars>>
    /\ UNCHANGED outsidePmap

\* acquire returns after its wait, and the worker is spawned.
G_Admitted(g) ==
    /\ current = g
    /\ IsGen(g)
    /\ pc[g] = "body_await"
    /\ inj.kind = "ok"
    /\ SpawnWorker(g, [pc EXCEPT ![g] = "body"])
    /\ inj' = NoInj

\* The inputs are exhausted: the body of gen_scope ends.
G_End(g) ==
    /\ IsGen(g)
    /\ next_in = Len(xs)
    /\ BodyEnd(g)

\* A generate that calls collector.done() whatever gen_scope raised.
CollectorOutcome_Done(g) == NoRes

\* generate: `except Exception as e: collector.error(e)`, `else:
\* collector.done()`; the error the collector is given, if any.
CollectorOutcome(g) == IF sres[g] = Ok THEN NoRes ELSE sres[g]

\* A generate without its except clause: the collector is terminated only
\* when gen_scope exited normally.
G_Done_NoExcept(g) ==
    /\ current = g
    /\ IsGen(g)
    /\ pc[g] = "after"
    /\ cdone' = (sres[g] = Ok)
    /\ cerror' = NoRes
    /\ tasks' = [tasks EXCEPT ![main_task[g]] = @ \ {g}]
    /\ FinishFrom(g, sres[g], IF sres[g] = Ok THEN CollWakeReady(ready) ELSE ready,
                  IF sres[g] = Ok THEN CollWakeFut(fut) ELSE fut)
    /\ UNCHANGED <<interruptible, aw, main_task, nawait, watch, exc, sres, round,
                   spawnedIn, spawner, bodyErr, interrupted, limVars, xs, limit,
                   next_in, widx, cbuf, buffer, next_idx, out, added>>
    /\ UNCHANGED outsidePmap

\* After gen_scope: collector.done(), or collector.error(e) with the error the
\* scope raised; generate returns and Scope._run discards the task.
G_Done(g) ==
    /\ current = g
    /\ IsGen(g)
    /\ pc[g] = "after"
    /\ cdone' = TRUE
    /\ cerror' = CollectorOutcome(g)
    /\ tasks' = [tasks EXCEPT ![main_task[g]] = @ \ {g}]
    /\ FinishFrom(g, Ok, CollWakeReady(ready), CollWakeFut(fut))
    /\ UNCHANGED <<interruptible, aw, main_task, nawait, watch, exc, sres, round,
                   spawnedIn, spawner, bodyErr, interrupted, limVars, xs, limit,
                   next_in, widx, cbuf, buffer, next_idx, out, added>>
    /\ UNCHANGED outsidePmap

\* The worker's func returns: collector.add((i, value)), slot.release(), and
\* Scope._run discards the task.
W_Return(c) ==
    /\ InFunc(c)
    /\ IsWorker(c)
    /\ cbuf' = Append(cbuf, <<widx[c], func(xs[widx[c] + 1])>>)
    /\ added' = Append(added, widx[c])
    /\ Release
    /\ tasks' = [tasks EXCEPT ![main_task[c]] = @ \ {c}]
    /\ FinishFrom(c, Ok, ReleaseReadyFrom(CollWakeReady(ready)),
                  ReleaseFutFrom(CollWakeFut(fut)))
    /\ UNCHANGED <<interruptible, aw, main_task, nawait, watch, exc, sres, round,
                   spawnedIn, spawner, bodyErr, interrupted, capacity, arrivals,
                   acquired, abandoned, nintr, xs, limit, next_in, widx, cdone,
                   cerror, buffer, next_idx, out>>
    /\ UNCHANGED outsidePmap

\* The worker's func raises in its own code (before or after an await), fails
\* at its await, or is interrupted there: slot.release() in the finally
\* clause, and the task ends with the error.
W_Fail(c) ==
    /\ current = c
    /\ IsWorker(c)
    /\ \/ InFunc(c)
       \/ pc[c] = "c_await" /\ inj.kind \in {"err", "intr"}
    /\ Release
    /\ tasks' = [tasks EXCEPT ![main_task[c]] = @ \ {c}]
    /\ FinishFrom(c, IF pc[c] # "c_await" THEN Fail(c)
                     ELSE IF inj.kind = "intr" THEN Interrupted(inj.src)
                     ELSE inj.err,
                  ReleaseReady, ReleaseFut)
    /\ UNCHANGED <<interruptible, aw, main_task, nawait, watch, exc, sres, round,
                   spawnedIn, spawner, bodyErr, interrupted, capacity, arrivals,
                   acquired, abandoned, nintr, pmapVars>>
    /\ UNCHANGED outsidePmap

InitP == InitCore /\ InitScope /\ InitLimIdle /\ InitPmap /\ InitRunIdle
            /\ InitOtherIdle

ConsumerNext ==
    \/ MainStart(MainT)
    \/ C_SpawnGen(MainT)
    \/ C_Wait(MainT)
    \/ C_Take(MainT)
    \/ C_Error(MainT)
    \/ C_Stop(MainT)
    \/ AfterEnd(MainT)

GenNext ==
    \E g \in Task :
        \/ G_Start(g)
        \/ G_Spawn(g)
        \/ G_Wait(g)
        \/ G_Admitted(g)
        \/ G_End(g)
        \/ G_Done(g)
        \/ IsGen(g) /\ MainInterrupted(g)

WorkerNext ==
    \E c \in Task :
        \/ IsWorker(c) /\ ChildAwait(c)
        \/ IsWorker(c) /\ ChildResume(c)
        \/ W_Return(c)
        \/ W_Fail(c)

NextP ==
    \/ Tick
    \/ \E t \in Task : Complete(t)
    \/ ConsumerNext
    \/ GenNext
    \/ WorkerNext
    \/ \E m \in Task : FinishLoop(m)
    \/ \E m \in Task : ScopeExit(m)
    \/ \E m \in Task : ScopeRaise(m)

SpecPmap == InitP /\ [][NextP]_vars

\* The code that iterates pmap_aiter inside its own `async with new_scope()`
\* raises in the body of its loop, after a result was yielded to it: the
\* error leaves the scope that generate was spawned into.
C_UserRaise(m) ==
    /\ spawnedIn[m] # {}
    /\ out # <<>>
    /\ pc[m] = "body"
    /\ BodyRaise(m)

\* The pmap program whose consumer may raise between two results.
NextPR ==
    \/ NextP
    \/ C_UserRaise(MainT)

SpecPmapRaise == InitP /\ [][NextPR]_vars

-----------------------------------------------------------------------------
\* The run program: run(outer), where outer opens a scope, spawns tasks into
\* it, awaits futures and, from the body of the scope, calls run(inner) and
\* catches what it raises; the body may fail, the spawned tasks do not.
\* inner awaits prog.n futures and then returns prog.val or raises.

MaxInnerAwaits == 1     \* awaits of the function given to the nested run
MaxSiblings == 2        \* tasks outer spawns into its scope

\* The functions that may be given to the nested run.
Progs == [n : 0..MaxInnerAwaits, end : {"return"}, val : Vals]
             \cup [n : 0..MaxInnerAwaits, end : {"raise"}, val : {NoVal}]

\* The scheduler in use is the innermost one.
Depth == Len(saved) + 1
ActiveOf(d) == {t \in Active : owner[t] = d}

\* What an outer scheduler looks like from outside while task k of it is
\* inside a nested run: its active tasks, its ready queue, where each of its
\* other tasks is in its code, and which of them await a future that is not
\* complete.
View(k, q) ==
    [active |-> {t \in Active : owner[t] = 1},
     ready |-> q,
     pcs |-> [t \in Task |-> IF owner[t] = 1 /\ t # k /\ ~Unborn(t) THEN pc[t]
                             ELSE "-"],
     unset |-> {t \in Active : owner[t] = 1 /\ aw[t] = "ext" /\ fut[t] = "unset"}]

\* run returns nothing and raises nothing, whatever the task did.
RunResult_Swallow(t) == [kind |-> "return", val |-> NoVal, err |-> NoRes, task |-> t]

\* run: `return task.result`.  Task.result gives the value the coroutine
\* returned, or raises the error it ended with.
RunResult(t) ==
    IF result[t] = Ok
    THEN [kind |-> "return", val |-> retval[t], err |-> NoRes, task |-> t]
    ELSE [kind |-> "raise", val |-> NoVal, err |-> result[t], task |-> t]

\* A scheduler that takes over the ready queue of the one that is running.
FreshReady_Shared(i) == Append(ready, i)

\* run: impl.Scheduler() is a new scheduler, and scheduler.spawn makes the
\* root task its only ready task.
FreshReady(i) == <<i>>

\* The body of outer's scope calls run(inner): the outer scheduler stays as
\* it is, inside the advance of the calling task, until the call returns.
BodyRun(m) ==
    /\ current = m
    /\ pc[m] = "body"
    /\ runres[m] = NoRun
    /\ LET i == NextTask
       IN /\ \E p \in Progs : prog' = [prog EXCEPT ![i] = p]
          /\ saved' = Append(saved, [ready |-> ready, current |-> m, inj |-> inj,
                                     task |-> i])
          /\ owner' = [owner EXCEPT ![i] = Depth + 1]
          /\ pc' = [pc EXCEPT ![i] = "start", ![m] = "in_run"]
          /\ ready' = FreshReady(i)
          /\ nest' = [state |-> "in", before |-> View(m, ready), after |-> NoView]
    /\ current' = NoTask
    /\ inj' = NoInj
    /\ UNCHANGED <<intr, interruptible, fut, aw, main_task, result, nawait, nstep,
                   retval, runres, scopeVars>>
    /\ UNCHANGED outsideRun

\* The root task of the nested run is in the code of inner.
InRoot(t) ==
    /\ current = t
    /\ owner[t] > 1
    /\ \/ pc[t] = "r_run"
       \/ pc[t] = "start" /\ inj.kind = "start"

R_Await(t) ==
    /\ InRoot(t)
    /\ nstep[t] < prog[t].n
    /\ nstep' = [nstep EXCEPT ![t] = @ + 1]
    /\ AwaitExt(t, "r_await")
    /\ UNCHANGED <<ready, intr, interruptible, main_task, result, saved, owner, prog,
                   retval, runres, nest, scopeVars>>
    /\ UNCHANGED outsideRun

R_Resume(t) ==
    /\ current = t
    /\ pc[t] = "r_await"
    /\ inj.kind = "ok"
    /\ pc' = [pc EXCEPT ![t] = "r_run"]
    /\ inj' = NoInj
    /\ UNCHANGED <<ready, current, intr, interruptible, fut, aw, main_task, result,
                   nawait, runVars, scopeVars>>
    /\ UNCHANGED outsideRun

\* inner ends as its function says: it returns prog.val or raises.
R_End(t) ==
    /\ InRoot(t)
    /\ nstep[t] = prog[t].n
    /\ retval' = [retval EXCEPT ![t] = IF prog[t].end = "return" THEN prog[t].val
                                       ELSE @]
    /\ Finish(t, IF prog[t].end = "return" THEN Ok ELSE Fail(t))
    /\ UNCHANGED <<interruptible, aw, main_task, nawait, saved, owner, prog, nstep,
                   runres, nest, scopeVars>>
    /\ UNCHANGED outsideRun

\* inner awaits a future that fails: the error leaves the coroutine.
R_AwaitFail(t) ==
    /\ current = t
    /\ pc[t] = "r_await"
    /\ inj.kind = "err"
    /\ Finish(t, inj.err)
    /\ UNCHANGED <<interruptible, aw, main_task, nawait, runVars, scopeVars>>
    /\ UNCHANGED outsideRun

\* run, the end of the `with` block of the nested call: Scheduler.__exit__ has
\* ticked until the scheduler has no active task; the outer scheduler goes on
\* with the advance of the caller, which gets task.result.
RunReturn ==
    /\ saved # <<>>
    /\ current = NoTask
    /\ ActiveOf(Depth) = {}
    /\ LET s == saved[Len(saved)]
       IN /\ ready' = s.ready
          /\ current' = s.current
          /\ inj' = s.inj
          /\ runres' = [runres EXCEPT ![s.current] = RunResult(s.task)]
          /\ pc' = [pc EXCEPT ![s.current] = "body"]
          /\ nest' = [nest EXCEPT !.state = "done",
                                  !.after = View(s.current, s.ready)]
    /\ saved' = SubSeq(saved, 1, Len(saved) - 1)
    /\ UNCHANGED <<intr, interruptible, fut, aw, main_task, result, nawait, owner,
                   prog, nstep, retval, scopeVars>>
    /\ UNCHANGED outsideRun

\* run, the end of the `with` block of the outermost call.
RunReturnTop ==
    /\ saved = <<>>
    /\ current = NoTask
    /\ ActiveOf(Depth) = {}
    /\ runres[NoTask] = NoRun
    /\ runres' = [runres EXCEPT ![NoTask] = RunResult(MainT)]
    /\ UNCHANGED <<coreVars, saved, owner, prog, nstep, retval, nest, scopeVars>>
    /\ UNCHANGED outsideRun

\* A future awaited by a task of a suspended scheduler is completed from
\* outside: the task is marked ready in its own scheduler.
CompleteSuspended(t) ==
    /\ ~Unborn(t)
    /\ owner[t] < Depth
    /\ fut[t] = "unset"
    /\ aw[t] = "ext"
    /\ \E o \in {"ok", "err"} : fut' = [fut EXCEPT ![t] = o]
    /\ saved' = [saved EXCEPT ![owner[t]].ready = Enq(@, t)]
    /\ UNCHANGED <<pc, ready, current, inj, intr, interruptible, aw, main_task,
                   result, nawait, owner, prog, nstep, retval, runres, nest,
                   scopeVars>>
    /\ UNCHANGED outsideRun

\* A future awaited by a task of the scheduler in use is completed.
CompleteCurrent(t) ==
    /\ owner[t] = Depth
    /\ Complete(t)

\* outer spawns its tasks at the start of the body of its scope.
SpawnsFirst ==
    /\ Cardinality(spawnedIn[MainT]) < MaxSiblings
    /\ nawait = 0
    /\ runres[MainT] = NoRun

InitR == InitCore /\ InitScope /\ InitLimIdle /\ InitPmapIdle /\ InitRunIdle
            /\ InitOtherIdle

OuterNext ==
    \/ MainStart(MainT)
    \/ SpawnsFirst /\ BodySpawn(MainT)
    \/ BodyAwait(MainT)
    \/ BodyResume(MainT)
    \/ BodyRaise(MainT)
    \/ BodyEnd(MainT)
    \/ FinishLoop(MainT)
    \/ ScopeExit(MainT)
    \/ ScopeRaise(MainT)
    \/ AfterEnd(MainT)
    \/ BodyRun(MainT)

SiblingNext ==
    \E c \in Task :
        \/ main_task[c] = MainT /\ ChildAwait(c)
        \/ main_task[c] = MainT /\ ChildResume(c)
        \/ main_task[c] = MainT /\ ChildReturn(c)
        \/ main_task[c] = MainT /\ ChildInterrupted(c)
        \/ main_task[c] = MainT /\ ChildKilled(c)

InnerNext ==
    \E t \in Task :
        \/ R_Await(t)
        \/ R_Resume(t)
        \/ R_End(t)
        \/ R_AwaitFail(t)

NextR ==
    \/ Tick
    \/ \E t \in Task : CompleteCurrent(t)
    \/ \E t \in Task : CompleteSuspended(t)
    \/ OuterNext
    \/ SiblingNext
    \/ InnerNext
    \/ RunReturn
    \/ RunReturnTop

SpecRun == InitR /\ [][NextR]_vars

\* The scheduler goes on ticking while it has active tasks, and every future
\* that is awaited is completed in the end.
SpecRunFair == SpecRun /\ WF_vars(NextR)

\* The program that calls run before it opens its scope: outer runs
\*     duet.run(inner)
\*     async with duet.new_scope() as scope: ...
\* catching what run raises; the body spawns tasks and awaits futures, and
\* nothing in it fails.

\* impl.current_task(): the task the scheduler in use is advancing.
current_task == current

\* outer calls run(inner) in its first advance, before any scope is open.
StartRun(m) ==
    /\ current = m
    /\ pc[m] = "start"
    /\ inj.kind = "start"
    /\ runres[m] = NoRun
    /\ LET i == NextTask
       IN /\ \E p \in Progs : prog' = [prog EXCEPT ![i] = p]
          /\ saved' = Append(saved, [ready |-> ready, current |-> m, inj |-> inj,
                                     task |-> i])
          /\ owner' = [owner EXCEPT ![i] = Depth + 1]
          /\ pc' = [pc EXCEPT ![i] = "start", ![m] = "pre_run"]
          /\ ready' = FreshReady(i)
          /\ nest' = [state |-> "in", before |-> View(m, ready), after |-> NoView]
    /\ current' = NoTask
    /\ inj' = NoInj
    /\ UNCHANGED <<intr, interruptible, fut, aw, main_task, result, nawait, nstep,
                   retval, runres, scopeVars>>
    /\ UNCHANGED outsideRun

\* A return from the nested run that leaves the root task of the nested
\* scheduler as the current task.
RunReturnPre_KeepCurrent ==
    /\ saved # <<>>
    /\ current = NoTask
    /\ ActiveOf(Depth) = {}
    /\ LET s == saved[Len(saved)]
       IN /\ pc[s.current] = "pre_run"
          /\ ready' = s.ready
          /\ current' = s.task
          /\ inj' = s.inj
          /\ runres' = [runres EXCEPT ![s.current] = RunResult(s.task)]
          /\ pc' = [pc EXCEPT ![s.current] = "start"]
          /\ nest' = [nest EXCEPT !.state = "done",
                                  !.after = View(s.current, s.ready)]
    /\ saved' = SubSeq(saved, 1, Len(saved) - 1)
    /\ UNCHANGED <<intr, interruptible, fut, aw, main_task, result, nawait, owner,
                   prog, nstep, retval, scopeVars>>
    /\ UNCHANGED outsideRun

\* run, the end of the `with` block of that call: the nested scheduler has no
\* active task, it is popped from the reentrancy stack, and the outer
\* scheduler goes on with the advance of the caller, which gets task.result.
RunReturnPre ==
    /\ saved # <<>>
    /\ current = NoTask
    /\ ActiveOf(Depth) = {}
    /\ LET s == saved[Len(saved)]
       IN /\ pc[s.current] = "pre_run"
          /\ ready' = s.ready
          /\ current' = s.current
          /\ inj' = s.inj
          /\ runres' = [runres EXCEPT ![s.current] = RunResult(s.task)]
          /\ pc' = [pc EXCEPT ![s.current] = "start"]
          /\ nest' = [nest EXCEPT !.state = "done",
                                  !.after = View(s.current, s.ready)]
    /\ saved' = SubSeq(saved, 1, Len(saved) - 1)
    /\ UNCHANGED <<intr, interruptible, fut, aw, main_task, result, nawait, owner,
                   prog, nstep, retval, scopeVars>>
    /\ UNCHANGED outsideRun

\* new_scope in the code of outer, once run has returned:
\* `main_task = impl.current_task()`, whatever task that is.
NewScopeAsCurrent ==
    /\ pc[MainT] = "start"
    /\ runres[MainT] # NoRun
    /\ inj.kind = "start"
    /\ current_task # NoTask
    /\ EnterScope(current_task)
    /\ UNCHANGED <<ready, current, inj, intr, interruptible, fut, aw, main_task,
                   result, nawait, watch, spawner, interrupted>>
    /\ UNCHANGED outsideScope

\* The body spawns its tasks before its first await.
SpawnsAtOnce ==
    /\ Cardinality(spawnedIn[MainT]) < MaxSiblings
    /\ inj.kind = "start"

NextN ==
    \/ Tick
    \/ \E t \in Task : CompleteCurrent(t)
    \/ StartRun(MainT)
    \/ InnerNext
    \/ RunReturnPre
    \/ NewScopeAsCurrent
    \/ SpawnsAtOnce /\ BodySpawn(MainT)
    \/ BodyAwait(MainT)
    \/ BodyResume(MainT)
    \/ BodyEnd(MainT)
    \/ FinishLoop(MainT)
    \/ ScopeExit(MainT)
    \/ AfterEnd(MainT)
    \/ \E c \in Task : main_task[c] # NoTask /\ ChildAwait(c)
    \/ \E c \in Task : main_task[c] # NoTask /\ ChildResume(c)
    \/ \E c \in Task : main_task[c] # NoTask /\ ChildReturn(c)
    \/ RunReturnTop

SpecNest == InitR /\ [][NextN]_vars

-----------------------------------------------------------------------------
\* AsyncioRunner.run (duet.aio and duet.interop.asyncio): the scheduler is
\* driven from an asyncio coroutine.

MaxCancels == 2     \* times asyncio cancels the task that awaits run

\* asyncio.CancelledError, raised at an await of the driver.
CancelledErr == [e |-> "CancelledError", by |-> NoTask]

\* The functions given to run: n awaits, then a return of val or a raise.
AioProgs == [n : 0..MaxInnerAwaits, end : {"return", "raise"}, val : Vals]

\* Everything the driver and its task leave alone.
outsideAio == <<thrVars, scopeVars, limVars, pmapVars, slotVars, apiVars, ctxVars, futVars,
                saved, owner, runres, nest>>

\* A drive loop that stops after its first round.
LoopGoesOn_Never == FALSE

\* `while scheduler.active_tasks:`
LoopGoesOn == Active # {}

\* scheduler.tick() raises: the task it advanced has no main task and ended
\* with an error.
Pending ==
    /\ drv.at \in {"tick", "xtick"}
    /\ current = NoTask
    /\ Done(MainT)
    /\ result[MainT] # Ok

\* The task of run is in the code of func.
InFuncA(t) ==
    /\ current = t
    /\ \/ pc[t] = "a_run"
       \/ pc[t] = "start" /\ inj.kind = "start"

A_FuncAwait(t) ==
    /\ InFuncA(t)
    /\ nstep[t] < prog[t].n
    /\ nstep' = [nstep EXCEPT ![t] = @ + 1]
    /\ AwaitExt(t, "a_await")
    /\ UNCHANGED <<ready, intr, interruptible, main_task, result, prog, retval>>
    /\ UNCHANGED <<outsideAio, aioVars>>

A_FuncResume(t) ==
    /\ current = t
    /\ pc[t] = "a_await"
    /\ inj.kind = "ok"
    /\ pc' = [pc EXCEPT ![t] = "a_run"]
    /\ inj' = NoInj
    /\ UNCHANGED <<ready, current, intr, interruptible, fut, aw, main_task, result,
                   nawait, prog, nstep, retval>>
    /\ UNCHANGED <<outsideAio, aioVars>>

\* `result = await func(*args, **kwds)`: func returns and the value is
\* stored, or func raises.
A_FuncEnd(t) ==
    /\ InFuncA(t)
    /\ nstep[t] = prog[t].n
    /\ retval' = [retval EXCEPT ![t] = IF prog[t].end = "return" THEN prog[t].val
                                       ELSE @]
    /\ Finish(t, IF prog[t].end = "return" THEN Ok ELSE Fail(t))
    /\ UNCHANGED <<interruptible, aw, main_task, nawait, prog, nstep>>
    /\ UNCHANGED <<outsideAio, aioVars>>

\* func awaits a future that fails: the error leaves the coroutine.
A_FuncAwaitFail(t) ==
    /\ current = t
    /\ pc[t] = "a_await"
    /\ inj.kind = "err"
    /\ Finish(t, inj.err)
    /\ UNCHANGED <<interruptible, aw, main_task, nawait, prog, nstep, retval>>
    /\ UNCHANGED <<outsideAio, aioVars>>

\* The task is interrupted, at its await or before it ever ran: the
\* Interrupt leaves the coroutine.
A_FuncInterrupted(t) ==
    /\ current = t
    /\ pc[t] \in {"start", "a_await"}
    /\ inj.kind = "intr"
    /\ Finish(t, Interrupted(inj.src))
    /\ UNCHANGED <<interruptible, aw, main_task, nawait, prog, nstep, retval>>
    /\ UNCHANGED <<outsideAio, aioVars>>

\* scheduler.ready_future is terminal: a task is ready, or flush() was called
\* since the scheduler last ticked.
ReadyFutureDone == ready # <<>> \/ flushed

\* The timer set by `loop.call_later(self.flush_timeout, scheduler.flush)`
\* fires while the driver waits: scheduler.flush().
A_Flush ==
    /\ drv.at \in {"wait", "xwait"}
    /\ ~flushed
    /\ flushed' = TRUE
    /\ UNCHANGED <<coreVars, prog, nstep, retval, outsideAio, drv, axc, aiores,
                   ncancel, signals>>

\* A flush that sets the ready future when it is pending and resets it when
\* it is terminal.
Flush_Toggle ==
    /\ flushed' = ~flushed
    /\ UNCHANGED <<coreVars, prog, nstep, retval, outsideAio, drv, axc, aiores,
                   ncancel, signals>>

\* Scheduler.flush(): the ready future is terminal afterwards; nothing else
\* of the scheduler is touched.
Flush ==
    /\ flushed' = TRUE
    /\ UNCHANGED <<coreVars, prog, nstep, retval, outsideAio, drv, axc, aiores,
                   ncancel, signals>>

\* scheduler.flush() called from another thread (a timer thread, a callback
\* of the outer loop) at any moment of the run, whatever the state of the
\* ready future.
A_FlushAny ==
    /\ drv.at # "done"
    /\ Flush

\* A driver that wakes only when the flush timer fired: the completion of a
\* future publishes no wake.
A_Wake_FlushOnly ==
    /\ drv.at \in {"wait", "xwait"}
    /\ flushed
    /\ drv' = [drv EXCEPT !.at = IF @ = "wait" THEN "tick" ELSE "xtick"]
    /\ UNCHANGED <<coreVars, prog, nstep, retval, outsideAio, axc, aiores, ncancel,
                   signals, flushed>>

\* `await asyncio.wrap_future(scheduler.ready_future)` returns: a task is
\* ready, or the flush timer fired.
A_Wake ==
    /\ drv.at \in {"wait", "xwait"}
    /\ ReadyFutureDone
    /\ drv' = [drv EXCEPT !.at = IF @ = "wait" THEN "tick" ELSE "xtick"]
    /\ UNCHANGED <<coreVars, prog, nstep, retval, outsideAio, axc, aiores, ncancel,
                   signals, flushed>>

\* scheduler.tick() advances the next ready task.
A_Tick ==
    /\ drv.at \in {"tick", "xtick"}
    /\ ~Pending
    /\ Tick

\* scheduler.tick() returns, the ready queue being empty; flush.cancel().
A_TickEnd ==
    /\ drv.at \in {"tick", "xtick"}
    /\ current = NoTask
    /\ ready = <<>>
    /\ ~Pending
    /\ drv' = [drv EXCEPT !.at = IF @ = "tick" THEN "loop" ELSE "xloop"]
    /\ UNCHANGED <<coreVars, prog, nstep, retval, outsideAio, axc, aiores, ncancel,
                   signals>>
    /\ flushed' = FALSE

\* The test of the drive loop: another round, or `return result` after the
\* finally clause (aio) or Scheduler.__exit__ (interop).
A_Loop ==
    /\ drv.at = "loop"
    /\ IF LoopGoesOn
       THEN /\ drv' = [drv EXCEPT !.at = "wait"]
            /\ UNCHANGED <<aiores, signals>>
       ELSE /\ drv' = [drv EXCEPT !.at = "done"]
            /\ signals' = FALSE
            /\ aiores' = [kind |-> "return", val |-> retval[MainT], err |-> NoRes,
                          task |-> MainT]
    /\ UNCHANGED <<coreVars, prog, nstep, retval, outsideAio, axc, ncancel, flushed>>

\* An except clause that only remembers exc: no task is interrupted.
Except_NoInterrupt(xc) ==
    /\ axc' = xc
    /\ drv' = [drv EXCEPT !.at = "xloop"]
    /\ UNCHANGED <<coreVars, prog, nstep, retval, outsideAio, aiores, signals,
                   flushed>>

\* `except BaseException as exc:` (aio) every active task is interrupted
\* with exc.
Except(xc) ==
    /\ axc' = xc
    /\ \E ord \in Orders(Active) :
          /\ intr' = IntrPostAll(intr, ord, NoTask, xc)
          /\ ready' = EnqAll(ready, Wakes(ord))
    /\ drv' = [drv EXCEPT !.at = "xloop"]
    /\ UNCHANGED <<pc, current, inj, interruptible, fut, aw, main_task, result,
                   nawait, prog, nstep, retval, outsideAio, aiores, signals,
                   flushed>>

\* scheduler.tick() raises the error of the task in the drive loop of aio.
A_TickRaise ==
    /\ drv = [mod |-> "aio", at |-> "tick"]
    /\ Pending
    /\ Except(result[MainT])
    /\ UNCHANGED ncancel

\* scheduler.tick() raises the error of the task in the drive loop of
\* interop.asyncio: there is no except clause, the error leaves the `with`
\* block and run.
A_TickRaiseInterop ==
    /\ drv = [mod |-> "interop", at |-> "tick"]
    /\ Pending
    /\ drv' = [drv EXCEPT !.at = "done"]
    /\ aiores' = [kind |-> "raise", val |-> NoVal, err |-> result[MainT],
                  task |-> MainT]
    /\ UNCHANGED <<coreVars, prog, nstep, retval, outsideAio, axc, ncancel, signals,
                   flushed>>

\* asyncio cancels the task that awaits run while the drive loop of aio
\* waits: CancelledError is raised at the await.
A_Cancel ==
    /\ drv = [mod |-> "aio", at |-> "wait"]
    /\ ncancel < MaxCancels
    /\ ncancel' = ncancel + 1
    /\ Except(CancelledErr)

\* The second loop of aio: an exception in it (a cancellation at the await,
\* an error raised by tick) is swallowed.
A_Swallow ==
    /\ \/ drv.at = "xwait" /\ ncancel < MaxCancels /\ ncancel' = ncancel + 1
       \/ drv.at = "xtick" /\ Pending /\ ncancel' = ncancel
    /\ drv' = [drv EXCEPT !.at = "xloop"]
    /\ UNCHANGED <<coreVars, prog, nstep, retval, outsideAio, axc, aiores, signals,
                   flushed>>

\* The test of the second loop: another round, or `raise` and the finally
\* clause.
A_XLoop ==
    /\ drv.at = "xloop"
    /\ IF LoopGoesOn
       THEN /\ drv' = [drv EXCEPT !.at = "xwait"]
            /\ UNCHANGED <<aiores, signals>>
       ELSE /\ drv' = [drv EXCEPT !.at = "done"]
            /\ signals' = FALSE
            /\ aiores' = [kind |-> "raise", val |-> NoVal, err |-> axc,
                          task |-> MainT]
    /\ UNCHANGED <<coreVars, prog, nstep, retval, outsideAio, axc, ncancel, flushed>>

\* run is called: the scheduler is made (aio installs the signal handlers),
\* the task is spawned and the drive loop is entered.
InitAio ==
    /\ \E md \in {"aio", "interop"} :
          /\ drv = [mod |-> md, at |-> "loop"]
          /\ signals = (md = "aio")
    /\ flushed = FALSE
    /\ axc = NoRes
    /\ aiores = NoRun
    /\ ncancel = 0

InitA ==
    /\ InitCore /\ InitScope /\ InitLimIdle /\ InitPmapIdle
    /\ saved = <<>>
    /\ owner = [t \in Task |-> 1]
    /\ \E p \in AioProgs : prog = [t \in Task |-> IF t = MainT THEN p ELSE NoProg]
    /\ nstep = [t \in Task |-> 0]
    /\ retval = [t \in Task |-> NoVal]
    /\ runres = [k \in 0..NTasks |-> NoRun]
    /\ nest = [state |-> "none", before |-> NoView, after |-> NoView]
    /\ InitSlotIdle /\ InitThrIdle /\ InitApiIdle /\ InitCtxIdle /\ InitFutIdle /\ InitAio

NextA ==
    \/ A_Flush
    \/ A_Wake
    \/ A_Tick
    \/ A_TickEnd
    \/ A_Loop
    \/ A_TickRaise
    \/ A_TickRaiseInterop
    \/ A_Cancel
    \/ A_Swallow
    \/ A_XLoop
    \/ Complete(MainT)
    \/ A_FuncAwait(MainT)
    \/ A_FuncResume(MainT)
    \/ A_FuncEnd(MainT)
    \/ A_FuncAwaitFail(MainT)
    \/ A_FuncInterrupted(MainT)

SpecAio == InitA /\ [][NextA]_vars

\* The error Scheduler.__exit__ interrupts the tasks that are left with.
ShutdownErr == [e |-> "SchedulerShutdown", by |-> NoTask]

\* A `with` block that is left at once, whatever tasks are active.
A_CancelInterop_NoExit ==
    /\ drv = [mod |-> "interop", at |-> "wait"]
    /\ ncancel < MaxCancels
    /\ ncancel' = ncancel + 1
    /\ axc' = CancelledErr
    /\ drv' = [drv EXCEPT !.at = "done"]
    /\ aiores' = [kind |-> "raise", val |-> NoVal, err |-> CancelledErr,
                  task |-> MainT]
    /\ UNCHANGED <<coreVars, prog, nstep, retval, outsideAio, signals, flushed>>

\* asyncio cancels the task that awaits run while the drive loop of
\* interop.asyncio waits: CancelledError leaves the `with` block, and
\* Scheduler.__exit__ interrupts every active task with the shutdown error
\* and goes on ticking until no task is active.
A_CancelInterop ==
    /\ drv = [mod |-> "interop", at |-> "wait"]
    /\ ncancel < MaxCancels
    /\ ncancel' = ncancel + 1
    /\ axc' = CancelledErr
    /\ \E ord \in Orders(Active) :
          /\ intr' = IntrPostAll(intr, ord, NoTask, ShutdownErr)
          /\ ready' = EnqAll(ready, Wakes(ord))
    /\ drv' = [drv EXCEPT !.at = "xloop"]
    /\ UNCHANGED <<pc, current, inj, interruptible, fut, aw, main_task, result,
                   nawait, prog, nstep, retval, outsideAio, aiores, signals,
                   flushed>>

\* The driver whose `with impl.Scheduler()` block may be left by a
\* cancellation.  No await of asyncio is inside Scheduler.__exit__, so only
\* the second loop of aio can be cancelled.
NextX ==
    \/ A_Flush
    \/ A_Wake
    \/ A_Tick
    \/ A_TickEnd
    \/ A_Loop
    \/ A_TickRaise
    \/ A_TickRaiseInterop
    \/ A_Cancel
    \/ A_CancelInterop
    \/ (drv.mod = "aio" \/ drv.at = "xtick") /\ A_Swallow
    \/ A_XLoop
    \/ Complete(MainT)
    \/ A_FuncAwait(MainT)
    \/ A_FuncResume(MainT)
    \/ A_FuncEnd(MainT)
    \/ A_FuncAwaitFail(MainT)
    \/ A_FuncInterrupted(MainT)

SpecExit == InitA /\ [][NextX]_vars

\* The steps of the scheduler's thread: the drive loop and the task it
\* advances.  The completion of a future, the flush timer and a cancellation
\* by asyncio come from outside.
DriveStep ==
    \/ A_Wake
    \/ A_Tick
    \/ A_TickEnd
    \/ A_Loop
    \/ A_XLoop
    \/ A_TickRaise
    \/ A_TickRaiseInterop
    \/ drv.at = "xtick" /\ A_Swallow
    \/ A_FuncAwait(MainT)
    \/ A_FuncResume(MainT)
    \/ A_FuncEnd(MainT)
    \/ A_FuncAwaitFail(MainT)
    \/ A_FuncInterrupted(MainT)

\* The scheduler's thread goes on running whenever it is not blocked on the
\* ready future; nothing is assumed of the other threads, nor of the timer.
SpecWake == SpecAio /\ WF_vars(DriveStep)

\* The driver with flush() called from other threads as well.
NextFl ==
    \/ NextA
    \/ A_FlushAny

SpecFlush == InitA /\ [][NextFl]_vars

-----------------------------------------------------------------------------
\* Properties of the scope program (Spec).

\* C3: when an `async with new_scope()` block has exited normally, every task
\* spawned in that scope, by the body or by another task of the scope, is
\* done: the block never exits while a spawned task is still active.
C3_StructuredExit ==
    \A m \in Task :
        (pc[m] = "after" /\ sres[m] = Ok) => \A c \in spawnedIn[m] : Done(c)

\* A block has exited normally after a task of the scope spawned another one.
C3_Witness ==
    /\ pc[MainT] = "after"
    /\ sres[MainT] = Ok
    /\ \E c \in spawnedIn[MainT] : spawner[c] # MainT /\ result[c] = Ok

\* C4: if a task spawned in a scope raised an error E and the body did not
\* fail, the `async with new_scope()` statement raises the error of such a
\* task, and when it raises every task spawned in the scope is done.
C4_ChildErrorRaised ==
    \A m \in Task :
        (/\ pc[m] = "after"
         /\ bodyErr[m] = NoRes
         /\ \E c \in spawnedIn[m] : IsUserError(result[c]))
        => /\ \E c \in spawnedIn[m] : IsUserError(result[c]) /\ sres[m] = result[c]
           /\ \A c \in spawnedIn[m] : Done(c)

\* C5: if the body of a scope raised E, no later statement of the body runs,
\* every task of the scope that is not done has been sent an interrupt, and
\* the statement raises E only when every task spawned in the scope is done.
C5_BodyErrorPath ==
    \A m \in Task :
        bodyErr[m] # NoRes =>
            /\ pc[m] \in {"cleanup_wait", "after", "done"}
            /\ \A c \in spawnedIn[m] : Done(c) \/ c \in interrupted
            /\ pc[m] \in {"after", "done"} =>
                  /\ sres[m] = bodyErr[m]
                  /\ \A c \in spawnedIn[m] : Done(c)

\* The body failed at its await of a failed future while a spawned task was
\* suspended; that task was interrupted and the statement raised.
C5_Witness ==
    /\ pc[MainT] = "after"
    /\ bodyErr[MainT] = FutErr(MainT)
    /\ sres[MainT] = FutErr(MainT)
    /\ \E c \in spawnedIn[MainT] :
          c \in interrupted /\ result[c] = Interrupted(MainT)

\* C14: once cancel() has been called on an open scope, the `async with`
\* statement of that scope ends by raising CancelledError.
C14_CancelRaisesCancelled ==
    \A m \in Task :
        (<<m, round[m]>> \in cancelCalls /\ pc[m] = "after") =>
            sres[m].e = "CancelledError"

\* C15: a scope statement opened with a timeout, whose body and spawned
\* tasks raise nothing of their own, is left only normally or, the timeout
\* having elapsed, by raising TimeoutError.
C15_TimeoutRaised ==
    \A m \in Task :
        (/\ <<m, round[m]>> \in timed
         /\ pc[m] = "after"
         /\ sres[m] # Ok
         /\ bodyErr[m] = NoRes
         /\ \A c \in spawnedIn[m] : ~IsUserError(result[c]))
        => sres[m].e = "TimeoutError"

\* C16: the error that leaves a scope statement is never an Interrupt: when
\* the except clause caught an Interrupt, the statement raises the error the
\* Interrupt carried, and that error has __suppress_context__ set.
C16_InterruptUnwrapped ==
    \A m \in Task :
        pc[m] = "after" =>
            /\ sres[m].e # "Interrupt"
            /\ exc[m].kind = "intr" =>
                  /\ sres[m] = exc[m].err
                  /\ <<m, round[m]>> \in suppress_context

\* The main task was interrupted at its await in the body by the error of a
\* spawned task, and the statement has raised that error.
C16_Witness ==
    \E c \in spawnedIn[MainT] :
        /\ pc[MainT] = "after"
        /\ exc[MainT] = [kind |-> "intr", err |-> Fail(c), src |-> c]
        /\ sres[MainT] = Fail(c)
        /\ <<MainT, round[MainT]>> \in suppress_context
        /\ bodyErr[MainT] = NoRes
        /\ nawait > 0

\* C17: a step that spawns a task leaves the new task at its start, in the
\* ready queue and without a result, and the spawning task stays the running
\* one; the running task gives up control only by awaiting or by ending; the
\* step in which a task ends leaves the main task of its scope where it is;
\* and the main task catches an Interrupt only when it is resumed at an await
\* of the body or of finish_tasks.
C17_SpawnDeferred ==
    [][/\ \A c \in Task :
             (Unborn(c) /\ ~Unborn(c)') =>
                 /\ pc'[c] = "start"
                 /\ InSeq(c, ready')
                 /\ result'[c] = NoRes
                 /\ current # NoTask
                 /\ current' = current
                 /\ pc'[current] \in {"body", "c_run"}
       /\ (current # NoTask /\ current' # current) =>
             /\ current' = NoTask
             /\ pc'[current] \in {"done", "body_await", "finish_wait", "cleanup_wait",
                                  "c_await"}
       /\ \A c \in Task :
             (~Done(c) /\ Done(c)' /\ main_task[c] # NoTask) =>
                 pc'[main_task[c]] = pc[main_task[c]]
       /\ \A m \in Task :
             (exc'[m] # exc[m] /\ exc'[m].kind = "intr") =>
                 /\ current = m
                 /\ pc[m] \in {"body_await", "finish_wait"}
                 /\ inj = exc'[m]]_vars

\* The body spawned two tasks before its first await; one of them raised
\* before awaiting anything, and the main task caught the Interrupt at the
\* await of its body.
C17_Witness ==
    \E c, d \in spawnedIn[MainT] :
        /\ c # d
        /\ spawner[c] = MainT /\ spawner[d] = MainT
        /\ result[c] = Fail(c)
        /\ exc[MainT] = [kind |-> "intr", err |-> Fail(c), src |-> c]
        /\ pc[MainT] = "cleanup_wait"
        /\ nawait = 1
        /\ round[MainT] = 1

\* C21: when a scope leaves through its error path, the interrupt its except
\* clause posted to a task that was not done carries the triggering error:
\* the error injected at the task's await is the error the except clause
\* caught and will raise out of the statement.
C21_InterruptCarriesTrigger ==
    \A c \in Children :
        (/\ current = c
         /\ pc[c] = "c_await"
         /\ inj.kind = "intr"
         /\ inj.src = main_task[c]
         /\ c \in interrupted
         /\ pc[main_task[c]] = "cleanup_wait")
        => inj.err = Raised(exc[main_task[c]])

\* C22: while a scope is in its cleanup wait no interrupt is delivered to its
\* main task: the main task is never resumed there with an interrupt, the
\* exception the except clause caught stays what it was, an error raised
\* later by another task does not replace it, and the statement ends only by
\* raising the error that was caught first.
C22_NoPreempt ==
    \A m \in Task :
        (current = m /\ pc[m] = "cleanup_wait") => inj.kind # "intr"

C22_FirstError ==
    \A m \in Task :
        pc[m] = "cleanup_wait" =>
            /\ exc'[m] = exc[m]
            /\ interruptible'[m] = FALSE
            /\ pc'[m] # "cleanup_wait" =>
                  pc'[m] = "after" /\ sres'[m] = exc[m].err

C22_CleanupNotPreempted == []C22_NoPreempt /\ [][C22_FirstError]_vars

\* The body raised while a task was waiting; the task raised an error of its
\* own when it was interrupted, which was posted to the main task during the
\* cleanup wait and is still pending; the statement raised the body's error.
C22_Witness ==
    \E c \in Children :
        /\ pc[MainT] = "after"
        /\ bodyErr[MainT] = Fail(MainT)
        /\ sres[MainT] = Fail(MainT)
        /\ c \in interrupted
        /\ result[c] = Fail(c)
        /\ intr[MainT] = [src |-> c, err |-> Fail(c)]
        /\ ~interruptible[MainT]

\* C23: after a scope has left through its error path the main task is
\* interruptible again: once the statement has raised, and for as long as
\* the task runs the body of a later scope or waits for its tasks, the
\* task's interruptible flag is set.
C23_InterruptibleRestored ==
    \A m \in Task :
        pc[m] \in {"after", "body", "body_await", "finish_wait"}
            => interruptible[m]

\* The main task of a scope is suspended: at an await of the body, or in
\* finish_tasks on either path.
Suspended(m) ==
    /\ pc[m] \in {"body_await", "finish_wait", "cleanup_wait"}
    /\ current # m

\* The step that ends finish_tasks, on either path, finds no member of the
\* set active and leaves the set empty.
C37_LoopEnd ==
    \A m \in Task :
        (pc[m] \in {"finish_wait", "cleanup_wait"} /\ pc'[m] = "after") =>
            (tasks'[m] = {} /\ tasks[m] \cap Active = {})

\* C37 as stated: in every state in which a scope's main task is suspended,
\* every member of the scope's set of tasks is an active task of the
\* scheduler; and the wait-for-children loop ends only with an empty set.
C37_ChildrenActive ==
    /\ [](\A m \in Task : Suspended(m) => tasks[m] \subseteq Active)
    /\ [][C37_LoopEnd]_vars

\* What holds of the set while the main task is suspended: a member that is
\* not active is a task that was interrupted before its first advance, which
\* never ran Scope._run and so never discarded itself; the wait of the main
\* task is over then, and its next advance reaps the member.
C37_Members ==
    \A m \in Task :
        Suspended(m) =>
            \A c \in tasks[m] \ Active :
                /\ Done(c)
                /\ result[c].e = "Interrupt"
                /\ c \in interrupted
                /\ pc[m] \in {"finish_wait", "cleanup_wait"}
                /\ fut[m] = "ok"
                /\ InSeq(m, ready)

\* C37, amended: the members of the set are active tasks, except the tasks
\* interrupted before they ever ran, which stay in the set until the main
\* task reaps them; the wait-for-children loop ends only with an empty set.
C37_ChildrenReaped == []C37_Members /\ [][C37_LoopEnd]_vars

\* The body raised right after a spawn; the new task was interrupted before
\* its first advance and is done, and it is still in the set of the scope
\* whose main task is suspended in the cleanup wait.
C37_Witness ==
    \E c \in Children :
        /\ pc[MainT] = "cleanup_wait"
        /\ current # MainT
        /\ c \in tasks[MainT]
        /\ Done(c)
        /\ result[c] = Interrupted(MainT)
        /\ \E d \in tasks[MainT] : d \in Active

-----------------------------------------------------------------------------
\* Properties of the scope program run tick by tick (SpecTick).

\* A task is made current in this step.
Advancing == current' # current /\ current' # NoTask

\* C29, the states: a ready task is in the queue once, and the tasks of one
\* scope that wait for their first advance are queued in the order in which
\* they were spawned (task objects are numbered as they are created).
C29_Queue ==
    \A i, j \in 1..Len(ready) :
        /\ ready[i] = ready[j] => i = j
        /\ (/\ i < j
            /\ pc[ready[i]] = "start" /\ pc[ready[j]] = "start"
            /\ main_task[ready[i]] # NoTask
            /\ main_task[ready[i]] = main_task[ready[j]]) => ready[i] < ready[j]

\* C29, the steps: the task advanced is the one that became ready first, the
\* head of the queue, and it leaves the queue; every other step leaves the
\* queued tasks in their order and only appends; tasks are advanced inside a
\* tick only, and a tick returns only when no task is ready, so that a task
\* that became ready during the tick has been advanced in it.
C29_Step ==
    /\ Advancing =>
          /\ drv.at = "tick"
          /\ ready # <<>>
          /\ current' = Head(ready)
          /\ ready' = Tail(ready)
    /\ ~Advancing =>
          /\ Len(ready') >= Len(ready)
          /\ SubSeq(ready', 1, Len(ready)) = ready
    /\ (drv.at = "tick" /\ drv'.at # "tick") => ready = <<>> /\ current = NoTask

C29_TickFifo == []C29_Queue /\ [][C29_Step]_vars

\* In the first tick the main task spawned two tasks; the first one was
\* advanced, awaited a completed future and is ready again, behind its
\* sibling, which is being advanced for the first time in the same tick.
C29_Witness ==
    \E c, d \in Children :
        /\ c < d
        /\ spawner[c] = MainT /\ spawner[d] = MainT
        /\ drv = TickDrv("tick", 1)
        /\ current = d /\ pc[d] = "start" /\ inj.kind = "start"
        /\ pc[c] = "c_await" /\ aw[c] = "set"
        /\ ready = <<c>>

-----------------------------------------------------------------------------
\* Properties of the context program (SpecCtx).

\* C18: the step that spawns a task gives it the bindings its spawner has at
\* that moment; afterwards a task's bindings change only in a step of that
\* task itself, so a binding set by the spawner after the spawn or by any
\* other task is not visible to it, and a binding it sets is visible neither
\* to its spawner nor to its siblings; what a task reads are its own
\* bindings.
C18_ContextInherited ==
    [][/\ \A c \in Task :
             (Unborn(c) /\ ~Unborn(c)') =>
                 /\ current # NoTask
                 /\ ctx'[c] = ctx[current]
                 /\ ctx'[current] = ctx[current]
       /\ \A t \in Task :
             (~Unborn(t) /\ ctx'[t] # ctx[t]) => current = t
       /\ \A t \in Task :
             seen'[t] # seen[t] => current = t /\ seen'[t] = ctx[t]]_vars

\* A task was spawned while B was "outer"; its spawner then set B to
\* "inner" before the task first ran; the task read "outer"; a sibling
\* spawned later set B to "local" and the spawner still reads "inner".
C18_Witness ==
    \E c, d \in Children :
        /\ c # d
        /\ spawner[c] = MainT /\ spawner[d] = MainT
        /\ seen[c]["B"] = "outer"
        /\ ctx[d]["B"] = "local"
        /\ seen[MainT]["B"] = "inner"
        /\ ctx[MainT]["B"] = "inner"
        /\ pc[MainT] = "done"

-----------------------------------------------------------------------------
\* Properties of the future program (SpecFut).

\* C19: a future's outcome is set at most once: no step changes the outcome
\* of a terminal future or fires its callbacks again, the callbacks have
\* fired exactly once when the future is terminal and never before, and a
\* task that a step marks ready while it awaits a future awaits a terminal
\* one (a task that awaited a future earlier and now waits on another, unset
\* one is not marked ready by a further set of the earlier future).
C19_FutureSetOnce ==
    [][/\ \A f \in Fut :
             outcome[f] # "unset" =>
                 outcome'[f] = outcome[f] /\ fired'[f] = fired[f]
       /\ \A f \in Fut :
             fired'[f] = (IF outcome'[f] = "unset" THEN 0 ELSE 1)
       /\ \A t \in FutUsers :
             (~InSeq(t, ready) /\ InSeq(t, ready') /\ pc'[t] = "f_await") =>
                 outcome'[waitsOn'[t]] # "unset"]_vars

\* A task awaited a future that was then set, and now waits on another
\* future that is unset; the first future has been set a second time and
\* the task was not marked ready.
C19_Witness ==
    \E t \in FutUsers, f, g \in Fut :
        /\ f # g
        /\ InSeq(t, callbacks[f])
        /\ outcome[f] = "ok"
        /\ nops[f] = 2
        /\ fired[f] = 1
        /\ waitsOn[t] = g
        /\ outcome[g] = "unset"
        /\ pc[t] = "f_await"
        /\ ~InSeq(t, ready)
        /\ current # t

-----------------------------------------------------------------------------
\* Properties of the asyncio driver (SpecAio).

\* C20: run ends only when the scheduler has no active task; when func
\* completed, run returns the value func returned; when func failed, run
\* raises the error func raised.
C20_AioOutcome ==
    /\ drv.at = "done" <=> aiores # NoRun
    /\ aiores # NoRun =>
          /\ Active = {}
          /\ result[MainT] = Ok =>
                aiores = [kind |-> "return", val |-> prog[MainT].val, err |-> NoRes,
                          task |-> MainT]
          /\ IsUserError(result[MainT]) =>
                aiores = [kind |-> "raise", val |-> NoVal, err |-> result[MainT],
                          task |-> MainT]

\* func awaited a future and then raised, and aio.run has raised that error.
C20_Witness ==
    /\ drv = [mod |-> "aio", at |-> "done"]
    /\ prog[MainT].end = "raise"
    /\ nstep[MainT] = 1
    /\ result[MainT] = Fail(MainT)
    /\ aiores.kind = "raise"
    /\ aiores.err = Fail(MainT)
    /\ ncancel = 0

\* The task is ready: it is active and not being advanced, and it has not
\* started yet, or the future it awaits is terminal, or an interrupt is
\* pending that it can take.
IsReady(t) ==
    /\ t \in Active
    /\ t # current
    /\ \/ pc[t] = "start"
       \/ fut[t] \in {"ok", "err", "cancelled"}
       \/ intr[t] # NoIntr /\ interruptible[t]

\* C30, the first part: a task is ready if and only if it is in the ready
\* queue; and what holds of the second: when the ready queue is not empty the
\* ready future is terminal, and when a tick has returned and the driver is
\* at the test of its loop, the ready future is terminal if and only if the
\* ready queue is not empty.
C30_ReadyQueue ==
    /\ \A t \in Task : IsReady(t) <=> InSeq(t, ready)
    /\ ready # <<>> => ReadyFutureDone
    /\ drv.at = "loop" => (ReadyFutureDone <=> ready # <<>>)

\* C30 as stated: moreover the ready future is terminal if and only if the
\* ready queue is not empty.
C30_ReadyFutureIffQueue ==
    /\ \A t \in Task : IsReady(t) <=> InSeq(t, ready)
    /\ ReadyFutureDone <=> ready # <<>>

\* The task waits for a future that is not set and the ready queue is empty;
\* the flush timer fired, so the ready future is terminal and the driver,
\* woken up, is about to tick.
C30_Witness ==
    /\ drv.at = "tick"
    /\ pc[MainT] = "a_await"
    /\ fut[MainT] = "unset"
    /\ ~IsReady(MainT)
    /\ ready = <<>>
    /\ ReadyFutureDone

\* The driver of aio is in its except clause.
InExcept == drv.mod = "aio" /\ drv.at \in {"xloop", "xwait", "xtick"}

\* Task t carries the interrupt of the except clause: it is pending on the
\* task, or the tick is delivering it.
CarriesExc(t) ==
    \/ intr[t] = [src |-> NoTask, err |-> axc]
    \/ current = t /\ inj = [kind |-> "intr", err |-> axc, src |-> NoTask]

\* The state of aio's run around its except clause: the handlers of
\* init_signals are installed exactly while run has not ended; the except
\* clause is where the driver is, or was, exactly when an exception was
\* caught; in it every task still active carries the interrupt with that
\* exception; and run ends with no active task, raising the exception that
\* was caught if there is one and returning otherwise.
C40_Except ==
    drv.mod = "aio" =>
        /\ signals <=> drv.at # "done"
        /\ axc # NoRes <=> (InExcept \/ (drv.at = "done" /\ aiores.kind = "raise"))
        /\ InExcept => \A t \in Active : CarriesExc(t)
        /\ drv.at = "done" =>
              /\ Active = {}
              /\ aiores.kind = "raise" => aiores.err = axc
              /\ aiores.kind = "return" => result[MainT] = Ok

\* The exception that was caught is kept, whatever the second loop meets,
\* and the second loop is left only through its test.
C40_Kept ==
    drv.mod = "aio" =>
        /\ axc # NoRes => axc' = axc
        /\ (drv.at \in {"xwait", "xtick"} /\ drv'.at # drv.at) =>
              drv'.at \in {"xtick", "xloop"}
        /\ (drv.at = "xloop" /\ drv'.at = "done") => Active = {}

\* C40: when the drive loop of aio's run raises, every task still active is
\* interrupted with that exception, the scheduler is ticked, further
\* exceptions being swallowed, until no task is active, the signal handlers
\* are removed on every path, and the exception first caught is raised.
C40_ExceptionHandled == []C40_Except /\ [][C40_Kept]_vars

\* run was cancelled while func awaited a future; the task was interrupted
\* with the CancelledError and ended with the Interrupt, which the tick
\* raised in the second loop and the loop swallowed; run was cancelled once
\* more while the second loop waited; run has raised the CancelledError and
\* the signal handlers are removed.
C40_Witness ==
    /\ drv = [mod |-> "aio", at |-> "done"]
    /\ nstep[MainT] = 1
    /\ result[MainT] = Interrupted(NoTask)
    /\ ncancel = 2
    /\ axc = CancelledErr
    /\ aiores.kind = "raise"
    /\ aiores.err = CancelledErr
    /\ ~signals

-----------------------------------------------------------------------------
\* Properties of the driver whose `with` block may be cancelled (SpecExit).

\* The tasks spawned on the scheduler of depth d.
SpawnedOn(d) == {t \in Task : ~Unborn(t) /\ owner[t] = d}

\* The task has completed, failed, or been interrupted to completion.
Ended(t) ==
    /\ Done(t)
    /\ \/ result[t] = Ok
       \/ IsUserError(result[t])
       \/ result[t].e = "Interrupt"

\* C35: when the `with impl.Scheduler()` block is over, and hence when run
\* has returned or raised, the scheduler has no active task left: every task
\* spawned on it has completed, failed, or been interrupted to completion.
C35_NoTaskLeft ==
    /\ aiores # NoRun =>
          /\ Active = {}
          /\ ready = <<>>
          /\ current = NoTask
          /\ \A t \in SpawnedOn(1) : Ended(t)
    /\ runres[NoTask] # NoRun =>
          /\ Active = {}
          /\ \A t \in SpawnedOn(1) : Ended(t)
    /\ \A k \in Task :
          runres[k] # NoRun => \A t \in SpawnedOn(owner[k] + 1) : Ended(t)

\* interop.asyncio.run was cancelled while func awaited a future: the task
\* was interrupted with the shutdown error and has ended, and run has raised
\* CancelledError.
C35_Witness ==
    /\ drv = [mod |-> "interop", at |-> "done"]
    /\ aiores.kind = "raise"
    /\ aiores.err = CancelledErr
    /\ result[MainT] = Interrupted(NoTask)
    /\ nstep[MainT] = 1
    /\ Active = {}

-----------------------------------------------------------------------------
\* Properties of the driver whose thread runs on (SpecWake).

\* The future the task awaits has been completed and the task has not been
\* advanced since.
Completed(t) ==
    /\ pc[t] = "a_await"
    /\ fut[t] \in {"ok", "err"}
    /\ current # t

\* The step that completes the future marks the waiting task ready and makes
\* the ready future terminal, wherever the driver is.
C32_Publish ==
    \A t \in Task :
        (~Completed(t) /\ Completed(t)') => (InSeq(t, ready') /\ ReadyFutureDone')

-----------------------------------------------------------------------------
\* Properties of the driver with flush() called from any thread (SpecFlush).

\* The driver is blocked on the ready future.
Waiting == drv.at \in {"wait", "xwait"}

\* The driver is inside scheduler.tick().
Ticking == drv.at \in {"tick", "xtick"}

\* After flush() the ready future is terminal and a driver awaiting it can
\* wake; a tick that finds no ready task can return at once.
C31_FlushWakes ==
    /\ flushed => ReadyFutureDone
    /\ (Waiting /\ flushed) => ENABLED A_Wake
    /\ (Ticking /\ flushed /\ ready = <<>> /\ current = NoTask /\ ~Pending) =>
          ENABLED A_TickEnd

\* A flush of a terminal ready future changes nothing: the future stays
\* terminal until a tick returns; and the return of a tick that had no ready
\* task advances no task.
C31_FlushStep ==
    /\ (flushed /\ ~flushed') => (Ticking /\ drv'.at \in {"loop", "xloop"})
    /\ (~flushed /\ flushed') => UNCHANGED <<coreVars, drv, aiores>>
    /\ (Ticking /\ flushed /\ ready = <<>> /\ current = NoTask /\ ~Ticking') =>
          UNCHANGED <<pc, current, inj, ready, fut, result, nstep>>

-----------------------------------------------------------------------------
\* Properties of the pmap program (SpecPmap).

\* C1: the results come in input order, one per input: the i-th result
\* yielded is func(xs[i]) whatever the order in which the workers completed,
\* and when pmap_async has returned, which it does if no call of func failed,
\* the list has exactly one result for every input.
C1_PmapOrdered ==
    /\ Len(out) <= Len(xs)
    /\ \A i \in 1..Len(out) : out[i] = func(xs[i])
    /\ (Done(MainT) /\ result[MainT] = Ok) => Len(out) = Len(xs)
    /\ (Done(MainT) /\ \A c \in Task : IsWorker(c) => result[c] = Ok)
          => result[MainT] = Ok

\* pmap_async has returned the whole list after the worker of a later input
\* completed before the worker of an earlier, different input.
C1_Witness ==
    /\ Done(MainT)
    /\ result[MainT] = Ok
    /\ Len(out) = Len(xs)
    /\ \E j, k \in 1..Len(added) :
          j < k /\ added[j] > added[k] /\ xs[added[j] + 1] # xs[added[k] + 1]

\* The worker has entered func and has not returned from it.
Entered(c) ==
    /\ IsWorker(c)
    /\ \/ pc[c] \in {"c_run", "c_await"}
       \/ pc[c] = "start" /\ current = c /\ inj.kind = "start"

\* C2: with an integer limit k, at most k workers have entered func and not
\* yet returned, in every reachable state.
C2_PmapConcurrency ==
    limit # NoLimit => Cardinality({c \in Task : Entered(c)}) <= limit

\* The limit is reached with inputs left over: the generator waits for the
\* limiter while as many workers as the limit allows are suspended in func.
C2_Witness ==
    /\ limit # NoLimit
    /\ next_in < Len(xs)
    /\ Cardinality({c \in Task : pc[c] = "c_await" /\ IsWorker(c)}) = limit
    /\ \E g \in Task : IsGen(g) /\ pc[g] = "body_await" /\ fut[g] = "unset"

\* C13: if func raised an error for some input, pmap_async raises the error
\* of such a call, whatever the limit; and once the `async with` of
\* pmap_async is over, every worker and the generator are done.
C13_PmapFailure ==
    pc[MainT] \in {"after", "done"} =>
        /\ (\E c \in Task : IsWorker(c) /\ IsUserError(result[c])) =>
              /\ sres[MainT] # Ok
              /\ \E c \in Task :
                    IsWorker(c) /\ IsUserError(result[c]) /\ sres[MainT] = result[c]
              /\ Done(MainT) => result[MainT] = sres[MainT]
        /\ \A t \in Task \ {MainT} : Unborn(t) \/ Done(t)

\* pmap_async has raised the error func raised before its first await for one
\* input, after the worker of another input, suspended in func, was
\* interrupted.
C13_Witness ==
    /\ Done(MainT)
    /\ \E c, d \in Task :
          /\ IsWorker(c)
          /\ IsWorker(d)
          /\ result[c] = Fail(c)
          /\ result[MainT] = Fail(c)
          /\ result[d].e = "Interrupt"

\* The consumer has taken the pair of index i from the collector.
Taken(i) ==
    /\ \E k \in 1..Len(added) : added[k] = i
    /\ \A k \in 1..Len(cbuf) : cbuf[k][1] # i

\* C38: pmap_aiter streams its results: the results yielded so far are those
\* of all the indices below the first index not yet taken from the
\* collector, so a result is yielded as soon as it and all earlier ones are
\* collected, without waiting for later items; the buffer holds exactly the
\* taken indices above next_idx; once the collector has finished without an
\* error and is drained the buffer is empty, and the trailing loop never
\* pops a missing index.
C38_Streams ==
    /\ Len(out) = next_idx
    /\ ~Taken(next_idx)
    /\ \A i \in 0..(next_idx - 1) : Taken(i) /\ out[i + 1] = func(xs[i + 1])
    /\ \A e \in buffer : e[1] > next_idx /\ Taken(e[1]) /\ e[2] = func(xs[e[1] + 1])
    /\ \A i \in 0..(Len(xs) - 1) : (Taken(i) /\ i > next_idx) => HasKey(buffer, i)
    /\ (cdone /\ cerror = NoRes /\ cbuf = <<>>) =>
          (buffer = {} /\ next_idx = Len(xs))
    /\ \A m \in Task : bodyErr[m].e # "KeyError" /\ sres[m].e # "KeyError"

\* The first result has been yielded while the worker of the second input is
\* still suspended in func.
C38_Witness ==
    /\ Len(out) = 1
    /\ next_idx = 1
    /\ buffer = {}
    /\ ~cdone
    /\ \E c \in Task : IsWorker(c) /\ widx[c] = 1 /\ pc[c] = "c_await"

-----------------------------------------------------------------------------
\* Properties of the pmap program with a consumer that raises (SpecPmapRaise).

\* The sources an interrupt may name: a task, or none.
Sources == Task \cup {NoTask}

\* What a call of interrupt(src, error) on task t would do to the task in
\* this state: nothing if the task is done, nothing if it holds a pending
\* interrupt unless src is an ancestor of the pending one's source, and in
\* that case the new interrupt takes the place of the pending one.
C33_Post ==
    \A t \in Task \ {u \in Task : Unborn(u)}, s \in Sources :
        LET new == [src |-> s, err |-> ScopeExited(s)]
            got == IntrPost(intr, t, s, ScopeExited(s))[t]
            old == intr[t].src
        IN IF Done(t) THEN got = intr[t] /\ Wakes(<<t>>) = <<>>
           ELSE IF intr[t] = NoIntr THEN got = new
           ELSE IF s # NoTask /\ old # NoTask /\ IsAncestor(s, old, NTasks)
           THEN got = new
           ELSE got = intr[t]

\* What the steps of the program do: a pending interrupt is left alone,
\* taken by the tick that advances the task, or replaced by an interrupt
\* whose source is an ancestor of its source; a task that is done is never
\* given an interrupt nor marked ready.
C33_Step ==
    \A t \in Task :
        /\ (intr[t] # NoIntr /\ intr'[t] # intr[t]) =>
               \/ intr'[t] = NoIntr /\ current' = t /\ inj'.kind = "intr"
               \/ /\ intr'[t] # NoIntr
                  /\ intr[t].src # NoTask
                  /\ IsAncestor(intr'[t].src, intr[t].src, NTasks)
        /\ Done(t) => (intr'[t] = intr[t] /\ ~InSeq(t, ready'))

\* C33: a task holds at most one pending interrupt: an interrupt posted while
\* another is pending is dropped unless its source is an ancestor scope of
\* the pending one's source, in which case it replaces it; an interrupt
\* posted to a task that is done has no effect.
C33_OnePendingInterrupt == []C33_Post /\ [][C33_Step]_vars

\* generate holds a pending interrupt of the enclosing scope, whose body
\* raised, while a worker of its own scope has failed: of the two interrupts
\* posted to it, only the one of the ancestor scope is pending.
C33_Witness ==
    \E g, w \in Task :
        /\ IsGen(g)
        /\ g # current
        /\ ~Done(g)
        /\ intr[g] = [src |-> MainT, err |-> ScopeExited(MainT)]
        /\ main_task[w] = g
        /\ Done(w)
        /\ IsUserError(result[w])
        /\ pc[MainT] = "cleanup_wait"

\* The state of the collector whenever the program is at rest: it is
\* terminated if and only if the task of generate is done, with an error if
\* and only if gen_scope raised one, and never before every worker is done;
\* and the consumer is suspended on it only while generate is still active.
C39_Collector ==
    /\ cerror # NoRes => cdone
    /\ \A g \in Task :
          IsGen(g) =>
              /\ Done(g) <=> cdone
              /\ cdone => (cerror = (IF sres[g] = Ok THEN NoRes ELSE sres[g]))
              /\ cdone => \A w \in Task : main_task[w] = g => Done(w)
              /\ CollWaiting => g \in Active
    /\ cdone => \E g \in Task : IsGen(g)
    /\ CollWaiting => ~cdone

\* The collector is terminated by one step of generate, after gen_scope, and
\* is not touched again.
C39_Once ==
    /\ cdone => (cdone' /\ cerror' = cerror)
    /\ (~cdone /\ cdone') =>
          \E g \in Task :
              /\ IsGen(g)
              /\ current = g
              /\ pc[g] = "after"
              /\ Done(g)'
              /\ \A w \in Task : main_task[w] = g => Done(w)

\* C39: the collector is terminated exactly once for every run of generate,
\* by done() or by error(e) and never both, and only after every worker
\* spawned by generate is done, also when generate is interrupted by the
\* enclosing scope; the consumer is never left waiting on a collector that
\* nothing will terminate.
C39_CollectorTerminated == []C39_Collector /\ [][C39_Once]_vars

\* generate was interrupted by the enclosing scope, whose body raised, while
\* a worker was suspended in func; the worker was interrupted in turn, and
\* generate has given the error gen_scope raised to the collector.
C39_Witness ==
    \E g, w \in Task :
        /\ IsGen(g)
        /\ Done(g)
        /\ exc[g].kind = "intr"
        /\ exc[g].src = MainT
        /\ cdone
        /\ cerror = ScopeExited(MainT)
        /\ main_task[w] = g
        /\ result[w] = Interrupted(g)

\* The interrupt the except clause of m's scope caught came from a scope
\* that encloses m's scope: its source is an ancestor of m.
FromAncestor(m) ==
    /\ exc[m].kind = "intr"
    /\ exc[m].src # NoTask
    /\ IsAncestor(exc[m].src, m, NTasks)

\* C36: a nested scope distinguishes interrupts by their source: when its
\* statement is over, an interrupt that was aimed at the scope itself has
\* been unwrapped into the error it carried, and an interrupt that came from
\* an ancestor scope has left the statement as an Interrupt of that ancestor.
C36_SourceDistinguished ==
    \A m \in Task :
        (pc[m] = "after" /\ exc[m].kind = "intr") =>
            IF FromAncestor(m) THEN sres[m] = Interrupted(exc[m].src)
            ELSE sres[m] = exc[m].err

-----------------------------------------------------------------------------
\* Properties of the run program (SpecRun, SpecRunFair).

\* What executing the body of a function without awaits gives.
Direct(p, t) ==
    IF p.end = "return"
    THEN [kind |-> "return", val |-> p.val, err |-> NoRes, task |-> t]
    ELSE [kind |-> "raise", val |-> NoVal, err |-> Fail(t), task |-> t]

\* C8: when a call of run has ended, its root task is done; run returned the
\* value the computation returned, or raised the computation's own error,
\* raised by its code (before or after its first await) or by a future it
\* awaited; and for a computation without awaits the outcome is that of
\* executing its body directly.
C8_RunOutcome ==
    /\ \A k \in Task :
          runres[k] # NoRun =>
              LET r == runres[k]
                  t == r.task
                  p == prog[t]
              IN /\ Done(t)
                 /\ owner[t] = owner[k] + 1
                 /\ r.kind \in {"return", "raise"}
                 /\ r.kind = "return" => p.end = "return" /\ r.val = p.val
                 /\ r.kind = "raise" =>
                       \/ r.err = Fail(t) /\ p.end = "raise" /\ nstep[t] = p.n
                       \/ r.err = FutErr(t) /\ nstep[t] >= 1
                 /\ p.n = 0 => r = Direct(p, t)
    /\ runres[NoTask] # NoRun =>
          LET r == runres[NoTask]
          IN /\ r.task = MainT
             /\ Done(MainT)
             /\ r.kind = (IF sres[MainT] = Ok THEN "return" ELSE "raise")
             /\ r.kind = "raise" => r.err = bodyErr[MainT] /\ IsUserError(r.err)

\* The outermost run has returned; the nested run raised the error its
\* function raised after an await.
C8_Witness ==
    /\ runres[NoTask].kind = "return"
    /\ runres[MainT].kind = "raise"
    /\ runres[MainT].err = Fail(runres[MainT].task)
    /\ nstep[runres[MainT].task] >= 1

IsPrefix(p, q) == Len(p) <= Len(q) /\ SubSeq(q, 1, Len(p)) = p

\* Between views b and a of the outer scheduler no task was added, removed
\* or advanced, and the ready queue of a is that of b followed by tasks whose
\* futures were completed in between.
OuterQuiet(b, a) ==
    /\ a.active = b.active
    /\ a.pcs = b.pcs
    /\ IsPrefix(b.ready, a.ready)
    /\ \A i \in (Len(b.ready) + 1)..Len(a.ready) :
          a.ready[i] \in b.unset \ a.unset

C9_Safe ==
    /\ saved # <<>> =>
          OuterQuiet(nest.before, View(saved[1].current, saved[1].ready))
    /\ nest.state = "done" =>
          /\ OuterQuiet(nest.before, nest.after)
          /\ saved = <<>>
          /\ pc[MainT] # "in_run"
          /\ runres[MainT] # NoRun
          /\ runres[MainT].kind = "return" =>
                runres[MainT].val = prog[runres[MainT].task].val

\* C9: a call of run made by a running task of an outer run terminates and
\* gives the inner result to the caller; during the call and at its return
\* the outer scheduler has the same active tasks, none of them has been
\* advanced, and its ready queue is the one before the call followed only by
\* outer tasks whose futures were completed from outside during the call.
C9_NestedRun == []C9_Safe /\ ((nest.state = "in") ~> (nest.state = "done"))

\* The nested run has returned a value after its root task awaited, while a
\* task spawned by the caller was suspended in the outer scheduler.
C9_Witness ==
    /\ nest.state = "done"
    /\ runres[MainT].kind = "return"
    /\ nstep[runres[MainT].task] >= 1
    /\ nest.before.unset # {}
    /\ nest.after.unset = nest.before.unset

\* C9 as stated: after the nested call the outer scheduler's active-task set
\* and ready queue are the same as before it.
C9_OuterUntouched ==
    nest.state = "done" =>
        /\ nest.after.active = nest.before.active
        /\ nest.after.ready = nest.before.ready

-----------------------------------------------------------------------------
\* Properties of the program that calls run before its scope (SpecNest).

\* Every scheduler has one current-task pointer: the one in use points to
\* nothing or to a task of its own, and each suspended scheduler points to
\* its task that made the nested call.  Scopes are opened by the outer task
\* only, and every spawned task has it as main task.
C34_Pointers ==
    /\ current # NoTask => (current \in Active /\ owner[current] = Depth)
    /\ \A k \in 1..Len(saved) :
          /\ saved[k].current \in Active
          /\ owner[saved[k].current] = k
          /\ owner[saved[k].task] = k + 1
          /\ pc[saved[k].current] \in {"pre_run", "in_run"}
    /\ \A t \in Task : round[t] > 0 => (t = MainT /\ owner[t] = 1)
    /\ \A c \in Task : main_task[c] \in {NoTask, MainT}

\* The step in which a nested run returns makes the caller the current
\* task again, and the step that opens a scope makes the caller its main
\* task.
C34_Return ==
    /\ Len(saved') < Len(saved) =>
          /\ current' = saved[Len(saved)].current
          /\ owner[current'] = Depth - 1
          /\ pc[current'] \in {"pre_run", "in_run"}
    /\ \A t \in Task : round'[t] > round[t] => (t = current /\ t = current')

\* C34: at most one task is current in a scheduler; during a nested run the
\* current task is a task of the inner scheduler; as soon as the nested run
\* returns the current task is again the outer task that made the call, so
\* that a scope opened afterwards takes that outer task as its main task.
C34_CurrentRestored == []C34_Pointers /\ [][C34_Return]_vars

\* run(inner) returned after inner awaited a future; outer then opened its
\* scope and spawned a task into it, which has outer as its main task, and
\* outer is still being advanced.
C34_Witness ==
    \E c \in Task :
        /\ runres[MainT] # NoRun
        /\ nstep[runres[MainT].task] = 1
        /\ saved = <<>>
        /\ current = MainT
        /\ pc[MainT] = "body"
        /\ round[MainT] = 1
        /\ main_task[c] = MainT
        /\ c \in tasks[MainT]
        /\ nawait = 1

-----------------------------------------------------------------------------
\* Properties of the limiter program (SpecLim).

\* Tasks that hold the limiter: inside an `async with limiter` block.
Holders == {t \in Task : pc[t] \in {"l_in", "l_body"}}

Pos(q, x) == CHOOSE i \in 1..Len(q) : q[i] = x

\* C6: for a limiter of fixed integer capacity c, count <= c in every
\* reachable state, also between a release that fulfilled a waiter's future
\* and the moment the waiter resumes and increments count.
C6_CountWithinCapacity == count <= capacity

\* C7: tasks acquire the limiter in arrival order: when Y has its slot, every
\* task that called __aenter__ before Y got its slot before Y (runs in which
\* no task is interrupted).
C7_FifoAdmission ==
    nintr = 0 =>
        \A i, j \in 1..Len(arrivals) :
            (i < j /\ InSeq(arrivals[j], acquired)) =>
                /\ InSeq(arrivals[i], acquired)
                /\ Pos(acquired, arrivals[i]) < Pos(acquired, arrivals[j])

\* A task waits in the queue on an unset future although the limiter is
\* available and no admitted waiter is about to take the free slot.
Stranded ==
    /\ count < capacity
    /\ \E w \in Task : InSeq(w, waiters) /\ LiveWaiter(w)
    /\ ~\E u \in Task : pc[u] = "l_wait" /\ fut[u] = "ok"

\* C10: a task cancelled while it waits in the queue never increments count,
\* no slot is leaked (count is the number of holders), and the tasks waiting
\* behind it are still admitted when the holder releases.
C10_CancelledWaiter ==
    /\ \A t \in abandoned : ~InSeq(t, acquired)
    /\ count = Cardinality(Holders)
    /\ ~Stranded

-----------------------------------------------------------------------------
\* The slot program: every task runs
\*     slot = await limiter.acquire(); [await f ...]; slot.release()
\* and then either ends or calls slot.release() once more.

\* Exception("Already released."), raised in task t.
AlreadyReleased(t) == [e |-> "Exception", by |-> t]

\* A slot that does not remember that it was released.
SlotCalled_Never(t) == FALSE

\* Slot.release: `if self.called`.
SlotCalled(t) == called[t]

\* Slot.release on a slot not yet released: called = True, and _release runs;
\* the task goes on.
SlotRelease(t) ==
    /\ current = t
    /\ pc[t] \in {"l_in", "s_out"}
    /\ ~SlotCalled(t)
    /\ called' = [called EXCEPT ![t] = TRUE]
    /\ nrel' = [nrel EXCEPT ![t] = @ + 1]
    /\ Release
    /\ fut' = ReleaseFut
    /\ ready' = ReleaseReady
    /\ pc' = [pc EXCEPT ![t] = "s_out"]
    /\ inj' = NoInj
    /\ UNCHANGED <<current, intr, interruptible, aw, main_task, result, nawait,
                   capacity, arrivals, acquired, abandoned, nintr, nresize, shrunk>>
    /\ UNCHANGED <<scopeVars, pmapVars, runVars, apiVars, ctxVars, futVars, aioVars, thrVars>>

\* Slot.release on a released slot raises, and the error ends the task.
SlotReleaseAgain(t) ==
    /\ current = t
    /\ pc[t] \in {"l_in", "s_out"}
    /\ SlotCalled(t)
    /\ nrel' = [nrel EXCEPT ![t] = @ + 1]
    /\ Finish(t, AlreadyReleased(t))
    /\ UNCHANGED <<interruptible, aw, main_task, nawait, limVars, called, nresize,
                   shrunk>>
    /\ UNCHANGED <<scopeVars, pmapVars, runVars, apiVars, ctxVars, futVars, aioVars, thrVars>>

\* The task ends after it released its slot.
SlotEnd(t) ==
    /\ current = t
    /\ pc[t] = "s_out"
    /\ Finish(t, Ok)
    /\ UNCHANGED <<interruptible, aw, main_task, nawait, limVars>>
    /\ UNCHANGED outsideLim

InitS == InitLim /\ InitScope /\ InitPmapIdle /\ InitRunIdle /\ InitOtherIdle

SlotNext ==
    \E t \in Task :
        \/ LimEnterNow(t)
        \/ LimEnqueue(t)
        \/ LimAdmitted(t)
        \/ LimBodyAwait(t)
        \/ LimBodyResume(t)
        \/ SlotRelease(t)
        \/ SlotReleaseAgain(t)
        \/ SlotEnd(t)

NextS ==
    \/ Tick
    \/ \E t \in Task : Complete(t)
    \/ SlotNext

SpecSlot == InitS /\ [][NextS]_vars

-----------------------------------------------------------------------------
\* Properties of the limiter program with a resized capacity (SpecLimResize).

\* C11: once capacity has been set below the count of that moment, no task,
\* waiting or new, is admitted (no step increments count) in a state where
\* count is not strictly below the capacity; the assignment itself leaves the
\* holders, the count and the queue as they are.
C11_ResizeGate ==
    [][/\ (shrunk /\ count >= capacity) => count' <= count
       /\ capacity' # capacity =>
              /\ count' = count
              /\ waiters' = waiters
              /\ pc' = pc
              /\ ready' = ready]_vars

\* The tasks whose future in the waiter queue a step fulfils.
Fulfilled == {t \in Task : LiveWaiter(t) /\ fut'[t] = "ok"}

\* C24: a release fulfils the head of the waiter queue only if a waiter
\* exists and count < capacity after the decrement; it fulfils at most one
\* queued waiter, and that waiter is the oldest one still in the queue.
C24_ReleaseHead ==
    [][\A t \in Fulfilled :
          /\ waiters # <<>>
          /\ t = Head(waiters)
          /\ Fulfilled = {t}
          /\ count' = count - 1
          /\ capacity' = NoLimit \/ count' < capacity']_vars

\* The tasks that took a slot and gave it back.
Released == {t \in Task : InSeq(t, acquired) /\ Done(t)}

\* C27: count is the number of acquisitions that have completed and have not
\* been released, and is never negative; a task whose wait in __aenter__
\* ended with an error never acquired, and the step in which its wait fails
\* leaves count as it is.
C27_CountIsHolders ==
    /\ count = Cardinality(Holders)
    /\ count = Len(acquired) - Cardinality(Released)
    /\ count >= 0
    /\ \A t \in abandoned : ~InSeq(t, acquired) /\ t \notin Holders

C27_FailedWait == abandoned' # abandoned => count' = count

C27_CountExact == []C27_CountIsHolders /\ [][C27_FailedWait]_vars

\* A task was interrupted while it waited in __aenter__ and ended without a
\* slot; another task has released its slot, and a third one holds one.
C27_Witness ==
    \E t, u, v \in Task :
        /\ t \in abandoned /\ Done(t)
        /\ u \in Released
        /\ v \in Holders
        /\ count = 1

\* Every task that called __aenter__ has had its slot.
AllServed == \A t \in Task : InSeq(t, arrivals) => InSeq(t, acquired)

\* C28: waiters are not stranded.  When the scheduler is fair, every holder
\* releases in the end and no waiter is cancelled, every task that called
\* __aenter__ gets its slot, also when capacity is raised or lowered while
\* tasks hold slots or wait.  arrivals and acquired only grow, so that every
\* arrival leads to its acquisition means that from some moment on every
\* task that arrived has acquired.
C28_NoStrandedWaiter == <>[]AllServed

\* Every task has had its slot; capacity was set below the count of that
\* moment while a task was waiting in the queue, and that task is in its
\* block.
C28_Witness ==
    /\ nresize = 1
    /\ shrunk
    /\ \A t \in LimUsers : InSeq(t, acquired)
    /\ \E t \in LimUsers : aw[t] = "lim" /\ pc[t] = "l_in" /\ count = capacity

-----------------------------------------------------------------------------
\* Properties of the throttle program (SpecThrottle).

\* A call of available() made by the task returns in this state.
Returning(t) == current = t /\ pc[t] = "t_gate" /\ inj.kind = "ok"

\* C25, the part that does not hold: a call of available() returns only in a
\* state where count < capacity (or capacity is None).
C25_ReturnsAvailable == \A t \in Throttlers : Returning(t) => is_available

\* C25, the rest: a call of available() suspends the task, whether or not the
\* limiter is available, and returns only after the scheduler has resumed the
\* task; its future is fulfilled at the call exactly if the limiter is
\* available then, is put on available_waiters otherwise, and is then
\* fulfilled only by a release; a release fulfils every pending availability
\* waiter, marks it ready and leaves the list empty.
C25_Step ==
    \A t \in Throttlers :
        /\ gates'[t] # gates[t] => Returning(t)
        /\ (pc[t] # "t_gate" /\ pc'[t] = "t_gate") =>
              /\ current = t /\ current' = NoTask
              /\ fut'[t] = "ok" <=> is_available
              /\ InSeq(t, available_waiters') <=> ~is_available
              /\ is_available => InSeq(t, ready')
        /\ (LiveAvailable(t) /\ fut'[t] = "ok") => count' = count - 1
        /\ count' < count =>
              /\ available_waiters' = <<>>
              /\ InSeq(t, available_waiters) => fut'[t] = "ok" /\ InSeq(t, ready')

FirstItems(n) == [i \in 1..n |-> i]

\* C26: available() and throttle never change count or the waiter queue: no
\* step of a throttling task changes count, waiters or the record of the
\* acquisitions.  throttle yields every value of the iterable once and in
\* order, each after one call of available() has returned: the values
\* yielded are the first values of the iterable, as many as calls returned;
\* a value has been taken and not yet yielded exactly while the task is at
\* the gate, and a task that ended has yielded the whole iterable.
C26_Yields ==
    \A t \in Throttlers :
        /\ yielded[t] = FirstItems(gates[t])
        /\ taken[t] = IF pc[t] = "t_gate" THEN gates[t] + 1 ELSE gates[t]
        /\ Done(t) => yielded[t] = FirstItems(niter)

C26_Frame ==
    \A t \in Throttlers :
        current = t =>
            /\ count' = count
            /\ waiters' = waiters
            /\ arrivals' = arrivals
            /\ acquired' = acquired

C26_ThrottleNoSlot == []C26_Yields /\ [][C26_Frame]_vars

\* A throttling task has yielded the whole iterable of two values; its last
\* call of available() found the limiter full and waited for a release, and
\* the limiter is in use.
C26_Witness ==
    \E t \in Throttlers :
        /\ Done(t)
        /\ niter = 2
        /\ yielded[t] = <<1, 2>>
        /\ aw[t] = "avail"
        /\ count = 1
        /\ Len(acquired) = 2

-----------------------------------------------------------------------------
\* Properties of the slot program (SpecSlot).

\* C12: the first release() on a task's slot decrements count by exactly one
\* and marks the slot released; every later release() on that slot raises an
\* error in the caller and leaves count, the waiter queue and the availability
\* waiters as they are.
C12_SlotReleasedOnce ==
    [][\A t \in Task :
          nrel'[t] = nrel[t] + 1 =>
              IF nrel[t] = 0
              THEN count' = count - 1 /\ called'[t]
              ELSE /\ count' = count
                   /\ waiters' = waiters
                   /\ available_waiters' = available_waiters
                   /\ fut' = [fut EXCEPT ![t] = "none"]
                   /\ pc'[t] = "done"
                   /\ result'[t] = AlreadyReleased(t)]_vars

\* A task released its slot twice while another task was waiting in the
\* queue: the first release admitted the head waiter, the second raised.
C12_Witness ==
    \E t, u \in Task :
        /\ nrel[t] = 2
        /\ result[t] = AlreadyReleased(t)
        /\ pc[u] = "l_wait"
        /\ InSeq(u, waiters)
        /\ count < capacity

====
